---- MODULE Spec2Model ----
(***************************************************************************)
(* Model of the MIIM extraction-to-graph pipeline:                         *)
(*   pipeline/orchestrator.py     PipelineOrchestrator, main               *)
(*   pipeline/database_writer.py  DatabaseWriter                           *)
(*   pipeline/deduplication.py    find_matching_company                    *)
(*   review_ui/review_helpers.py  approve_item, reject_item                *)
(*   admin_helpers.py             approve_review, reject_review            *)
(*                                                                         *)
(* Encoding.  Confidences are integers in thousandths (0.85 is 850).       *)
(* Company and person names are sequences of one-character strings.        *)
(* Python's None is NoneName for a name, NoneStr for a text field, NoneInt *)
(* for a number and the id 0 for an id (generated ids start at 1).         *)
(* Store tables are sequences in insertion order, the order in which a     *)
(* select without ORDER BY is taken to return its rows.  One step of the   *)
(* article loop is one action; the review actions of the dashboards are    *)
(* taken between runs of the orchestrator.                                 *)
(***************************************************************************)
EXTENDS Integers, Sequences, FiniteSets, TLC

\* ---------------------------------------------------------------- bounds
NumArticles == 2
MaxProcessed == 2
MaxReprocess == 1
MaxReviewOps == 1
MaxDecisions == 2
MaxFaults == 1

\* ------------------------------------------------------- program constants
CONFIDENCE_THRESHOLDS == [auto_approve |-> 850, review_queue |-> 650, discard |-> 0]

\* ---------------------------------------------------------------- encoding
NoneName == <<"None">>
NoneStr == "None"
NoneInt == -1

\* Python truthiness of a str value (None and "" are falsy).
TruthyName(n) == n # NoneName /\ n # <<>>
TruthyStr(s) == s # NoneStr /\ s # ""
\* Python truthiness of an int value (None and 0 are falsy).
TruthyInt(v) == v # NoneInt /\ v # 0

\* (value or "")
OrEmpty(n) == IF TruthyName(n) THEN n ELSE <<>>

\* ------------------------------------------------------------ str methods
LowerChar(c) == IF c = "A" THEN "a" ELSE IF c = "B" THEN "b" ELSE IF c = "C" THEN "c" ELSE IF c = "S" THEN "s" ELSE c

\* str.lower()
Lower(s) == [i \in 1..Len(s) |-> LowerChar(s[i])]

RECURSIVE LStrip(_)
LStrip(s) == IF s # <<>> /\ Head(s) = " " THEN LStrip(Tail(s)) ELSE s

RECURSIVE RStrip(_)
RStrip(s) == IF s # <<>> /\ s[Len(s)] = " " THEN RStrip(SubSeq(s, 1, Len(s) - 1)) ELSE s

\* str.strip()
Strip(s) == RStrip(LStrip(s))

\* needle in hay
Contains(hay, needle) ==
    \E i \in 1..(Len(hay) + 1) :
        /\ i + Len(needle) - 1 <= Len(hay)
        /\ SubSeq(hay, i, i + Len(needle) - 1) = needle

\* column ILIKE '%pattern%'
ILike(value, pattern) == Contains(Lower(value), Lower(pattern))

\* ------------------------------------------------------------------ store
\* An injected store error: the store operation `op` issued for item number
\* `idx` of the extraction (0 when the operation is not per item) raises.
FaultPoint(op, idx) == [op |-> op, idx |-> idx]
Faulted(F, op, idx) == FaultPoint(op, idx) \in F

NoRow ==
    [company_id |-> 0, company_name |-> NoneName, headquarters_city |-> NoneStr,
     employee_count |-> NoneInt, data_confidence |-> NoneInt, updated_at |-> NoneInt]

\* select * from companies where company_id = id  (first row, NoRow when none)
CompanyById(comps, id) ==
    LET hit == SelectSeq(comps, LAMBDA c : c.company_id = id)
    IN IF hit = <<>> THEN NoRow ELSE hit[1]

\* update companies set <row> where company_id = row.company_id
UpdateCompany(comps, row) ==
    [k \in 1..Len(comps) |-> IF comps[k].company_id = row.company_id THEN row ELSE comps[k]]

\* ------------------------------------------------- find_matching_company
\* Variant: the first candidate, without the preference for an exact match.
FirstMatchMutant(company_name_lower, cands) ==
    IF cands = <<>> THEN 0 ELSE cands[1].company_id

\* deduplication.py 74-87: no candidate gives None; else the candidate whose
\* lowercased name equals the lowercased search name is preferred to the
\* first candidate returned.
FirstMatch(company_name_lower, cands) ==
    LET exact == SelectSeq(cands, LAMBDA c : Lower(c.company_name) = company_name_lower)
    IN IF cands = <<>> THEN 0
       ELSE IF exact # <<>> THEN exact[1].company_id
       ELSE cands[1].company_id

\* Variant: LIKE in place of ILIKE (the stored name is compared case-sensitively).
CandidatesMutant(comps, company_name_lower) ==
    SelectSeq(comps, LAMBDA c : Contains(c.company_name, company_name_lower))

\* deduplication.py 67-72: select ... where company_name ilike '%<name>%'
Candidates(comps, company_name_lower) ==
    SelectSeq(comps, LAMBDA c : ILike(c.company_name, company_name_lower))

MatchLowered(comps, company_name_lower) ==
    FirstMatch(company_name_lower, Candidates(comps, company_name_lower))

\* Variant: no stored company is ever found.
FindNothingMutant(comps, company_name) == 0

\* The city argument is accepted and never used by the code, so it is not a
\* parameter here.  Returns a company_id, or 0 for None.
find_matching_company(comps, company_name) ==
    IF ~TruthyName(company_name) \/ Strip(company_name) = <<>>
    THEN 0
    ELSE MatchLowered(comps, Strip(Lower(company_name)))

\* ------------------------------------------------------- DatabaseWriter
\* _link_article_to_company: company_articles carries a unique constraint on
\* (company_id, article_id); the violation raised by a repeated link is
\* swallowed, so the table is a set of pairs.
LinkArticleToCompany(db, company_id, article_id) ==
    [db EXCEPT !.company_articles = @ \cup {[company_id |-> company_id, article_id |-> article_id]}]

\* database_writer.py 274-302 for one person, name already stripped.
SavePerson(db, company_id, name) ==
    IF name = <<>>
       \/ SelectSeq(db.company_people,
                    LAMBDA r : r.company_id = company_id /\ ILike(r.person_name, name)) # <<>>
    THEN db
    ELSE [db EXCEPT !.company_people =
              Append(@, [company_id |-> company_id, person_name |-> name])]

\* _save_management
RECURSIVE SaveManagement(_, _, _)
SaveManagement(db, company_id, management_mentions) ==
    IF management_mentions = <<>> THEN db
    ELSE SaveManagement(
            SavePerson(db, company_id, Strip(OrEmpty(Head(management_mentions).name))),
            company_id, Tail(management_mentions))

\* Variant: an incoming value also replaces a populated field.
FillsMutant(value_truthy, current_truthy) == value_truthy

\* database_writer.py 81: `if value and not current.get(key)`
Fills(value_truthy, current_truthy) == value_truthy /\ ~current_truthy

FillName(value, current) == IF Fills(TruthyName(value), TruthyName(current)) THEN value ELSE current
FillStr(value, current) == IF Fills(TruthyStr(value), TruthyStr(current)) THEN value ELSE current
FillInt(value, current) == IF Fills(TruthyInt(value), TruthyInt(current)) THEN value ELSE current

\* Variant: the stored confidence is always replaced.
RaisedConfidenceMutant(confidence, current) == confidence

\* database_writer.py 84-85: `if confidence > (current.get("data_confidence") or 0)`
RaisedConfidence(confidence, current) ==
    IF confidence > (IF TruthyInt(current) THEN current ELSE 0) THEN confidence ELSE current

\* Variant: updated_at is left alone.
StampMutant(current, now) == current

\* database_writer.py 77: update_data starts as {"updated_at": utcnow()}
Stamp(current, now) == now

\* The row written by the update branch (lines 77-87).
UpdatedRow(current, company_name, entity, confidence, now) ==
    [current EXCEPT
        !.company_name = FillName(company_name, @),
        !.headquarters_city = FillStr(entity.city, @),
        !.employee_count = FillInt(entity.employee_count, @),
        !.data_confidence = RaisedConfidence(confidence, @),
        !.updated_at = Stamp(@, now)]

\* The row written by the insert branch (lines 99-104); keys whose value is
\* None are dropped before the insert and stay NULL in the store.
InsertedRow(company_id, company_name, entity, confidence, now) ==
    [company_id |-> company_id, company_name |-> company_name,
     headquarters_city |-> entity.city, employee_count |-> entity.employee_count,
     data_confidence |-> confidence, updated_at |-> now]

UpsertResult(db, ret, matched, before, after) ==
    [db |-> db, ret |-> ret, matched |-> matched, before |-> before, after |-> after]

\* Lines 90-96 and 109-115: link the article, save the people, return the id.
LinkAndReturn(db, entity, article_id, matched, before, row) ==
    UpsertResult(
        SaveManagement(LinkArticleToCompany(db, row.company_id, article_id),
                       row.company_id, entity.management_mentions),
        row.company_id, matched, before, row)

\* Lines 72-96: the update of the matched company `current` to `row`.
UpdateExisting(db, entity, article_id, current, row) ==
    LinkAndReturn([db EXCEPT !.companies = UpdateCompany(@, row), !.clock = @ + 1],
                  entity, article_id, current.company_id, current, row)

\* Lines 97-115: the insert of `row` as a new company.
InsertNew(db, entity, article_id, row) ==
    LinkAndReturn([db EXCEPT !.companies = Append(@, row), !.nextId = @ + 1, !.clock = @ + 1],
                  entity, article_id, 0, NoRow, row)

\* Lines 46-118, once find_matching_company has answered existing_id.
UpsertMatched(db, entity, company_name, existing_id, article_id, confidence, F, i) ==
    IF Faulted(F, "companies", i)
    THEN UpsertResult([db EXCEPT !.clock = @ + 1], 0, existing_id,
                      CompanyById(db.companies, existing_id), NoRow)
    ELSE IF existing_id # 0
    THEN UpdateExisting(db, entity, article_id, CompanyById(db.companies, existing_id),
                        UpdatedRow(CompanyById(db.companies, existing_id), company_name,
                                   entity, confidence, db.clock + 1))
    ELSE InsertNew(db, entity, article_id,
                   InsertedRow(db.nextId, company_name, entity, confidence, db.clock + 1))

\* Lines 36-44, company_name being the stripped name of the entity.
UpsertNamed(db, entity, company_name, article_id, confidence, F, i) ==
    IF company_name = <<>>
    THEN UpsertResult(db, 0, 0, NoRow, NoRow)
    ELSE UpsertMatched(db, entity, company_name,
                       IF Faulted(F, "find_matching_company", i) THEN 0
                       ELSE find_matching_company(db.companies, company_name),
                       article_id, confidence, F, i)

\* upsert_company(entity, article_id, confidence), called for entity number i
\* under the injected store errors F.  Returns [db, ret, matched, before,
\* after]: ret = 0 stands for None, matched is the id find_matching_company
\* gave, before and after are the company's row around the write.
upsert_company(db, entity, article_id, confidence, F, i) ==
    UpsertNamed(db, entity, Strip(OrEmpty(entity.company_name)), article_id, confidence, F, i)

\* _normalize_event_type
NormalizeEventType(event_type) ==
    CASE event_type = "new_factory" -> "New Factory"
      [] event_type = "partnership" -> "Partnership"
      [] event_type = "investment" -> "Investment"
      [] event_type = "acquisition" -> "Acquisition"
      [] event_type = "export_milestone" -> "Export Milestone"
      [] event_type = "government_incentive" -> "Government Incentive"
      [] event_type = "expansion" -> "Expansion"
      [] event_type = "closure" -> "Closure"
      [] event_type = "ipo" -> "IPO"
      [] OTHER -> "Other"

\* Variant: an id is returned although the store rejected the row.
InsertEventMutant(db, entity, company_id, article_url, confidence, F, i) ==
    [db |-> db, ret |-> db.nextId]

\* insert_event(entity, company_id, article_url, confidence) for entity i.
\* Returns [db, ret], ret = 0 for None.
insert_event(db, entity, company_id, article_url, confidence, F, i) ==
    IF Faulted(F, "events", i)
    THEN [db |-> db, ret |-> 0]
    ELSE [db |-> [db EXCEPT
                    !.events = Append(@, [event_id |-> db.nextId, company_id |-> company_id,
                                          event_type |-> NormalizeEventType(entity.event_type),
                                          source_url |-> article_url,
                                          confidence_score |-> confidence]),
                    !.nextId = @ + 1],
          ret |-> db.nextId]

\* company_name_to_id.get(name): 0 when the name is no key of the map.
MapGet(company_name_to_id, name) ==
    IF name \in DOMAIN company_name_to_id THEN company_name_to_id[name] ELSE 0

\* company_name_to_id[name] = id
MapPut(company_name_to_id, name, id) ==
    [n \in DOMAIN company_name_to_id \cup {name} |->
        IF n = name THEN id ELSE company_name_to_id[n]]

\* _insert_legacy_partnership
InsertLegacyPartnership(db, company_a_id, company_b_id) ==
    IF SelectSeq(db.partnerships,
                 LAMBDA r : r.company_a_id = company_a_id /\ r.company_b_id = company_b_id) # <<>>
    THEN db
    ELSE [db EXCEPT !.partnerships =
              Append(@, [company_a_id |-> company_a_id, company_b_id |-> company_b_id])]

\* Variant: no look-up of an existing row before the insert.
SkipsRelationshipMutant(rows, source_id, target_id, rel_type) ==
    source_id = 0 \/ target_id = 0 \/ source_id = target_id

\* Variant: an unresolved endpoint does not skip the edge.
SkipsResolvedOnlyMutant(rows, source_id, target_id, rel_type) ==
    \/ source_id = target_id
    \/ SelectSeq(rows, LAMBDA r : /\ r.source_company_id = source_id
                                  /\ r.target_company_id = target_id
                                  /\ r.relationship_type = rel_type) # <<>>

\* database_writer.py 203-219: the three reasons one relationship is skipped.
SkipsRelationship(rows, source_id, target_id, rel_type) ==
    \/ source_id = 0 \/ target_id = 0
    \/ source_id = target_id
    \/ SelectSeq(rows, LAMBDA r : /\ r.source_company_id = source_id
                                  /\ r.target_company_id = target_id
                                  /\ r.relationship_type = rel_type) # <<>>

\* Lines 195-201: the id from the map, else from find_matching_company.
ResolveCompany(comps, company_name_to_id, name) ==
    IF MapGet(company_name_to_id, name) # 0
    THEN MapGet(company_name_to_id, name)
    ELSE find_matching_company(comps, name)

\* Lines 221-240: the insert, then the legacy row for partner/joint_venture.
InsertRelationshipRow(db, source_id, target_id, rel_type, source_url, confidence) ==
    [db EXCEPT
        !.company_relationships =
            Append(@, [id |-> db.nextId, source_company_id |-> source_id,
                       target_company_id |-> target_id, relationship_type |-> rel_type,
                       source_url |-> source_url, confidence_score |-> confidence]),
        !.nextId = @ + 1]

\* Lines 203-243 for relationship j with both endpoints resolved.
\* st = [db, inserted].
InsertResolved(st, source_id, target_id, rel_type, source_url, confidence, F, j) ==
    IF SkipsRelationship(st.db.company_relationships, source_id, target_id, rel_type)
       \/ Faulted(F, "company_relationships", j)
    THEN st
    ELSE [db |-> IF rel_type \in {"partner", "joint_venture"}
                 THEN InsertLegacyPartnership(
                          InsertRelationshipRow(st.db, source_id, target_id, rel_type,
                                                source_url, confidence),
                          source_id, target_id)
                 ELSE InsertRelationshipRow(st.db, source_id, target_id, rel_type,
                                            source_url, confidence),
          inserted |-> st.inserted + 1]

\* One iteration of the loop of insert_relationships, for relationship j.
InsertOneRelationship(st, rel, company_name_to_id, source_url, confidence, F, j) ==
    InsertResolved(st,
        ResolveCompany(st.db.companies, company_name_to_id, Strip(rel.source_company)),
        ResolveCompany(st.db.companies, company_name_to_id, Strip(rel.target_company)),
        rel.relationship_type, source_url, confidence, F, j)

RECURSIVE RelationshipLoop(_, _, _, _, _, _, _)
RelationshipLoop(st, relationships, company_name_to_id, source_url, confidence, F, j) ==
    IF j > Len(relationships) THEN st
    ELSE RelationshipLoop(
            InsertOneRelationship(st, relationships[j], company_name_to_id,
                                  source_url, confidence, F, j),
            relationships, company_name_to_id, source_url, confidence, F, j + 1)

\* insert_relationships(relationships, company_name_to_id, source_url, confidence)
\* returns [db, inserted].
insert_relationships(db, relationships, company_name_to_id, source_url, confidence, F) ==
    RelationshipLoop([db |-> db, inserted |-> 0], relationships, company_name_to_id,
                     source_url, confidence, F, 1)

\* save_extraction_result: returns [db, ret], ret = 0 for None.
save_extraction_result(db, article_id, extraction, confidence, F) ==
    IF Faulted(F, "extraction_results", 0)
    THEN [db |-> db, ret |-> 0]
    ELSE [db |-> [db EXCEPT
                    !.extraction_results =
                        Append(@, [id |-> db.nextId, article_id |-> article_id,
                                   extraction_data |-> extraction,
                                   confidence_score |-> confidence]),
                    !.nextId = @ + 1],
          ret |-> db.nextId]

\* add_to_review_queue: returns [db, ret], ret = 0 for None.
add_to_review_queue(db, article_id, extraction_result_id, extraction_data, confidence, F) ==
    IF Faulted(F, "review_queue", 0)
    THEN [db |-> db, ret |-> 0]
    ELSE [db |-> [db EXCEPT
                    !.review_queue =
                        Append(@, [id |-> db.nextId, article_id |-> article_id,
                                   extraction_result_id |-> extraction_result_id,
                                   extracted_data |-> extraction_data,
                                   confidence_score |-> confidence,
                                   status |-> "pending",
                                   linked_company_id |-> 0, linked_event_id |-> 0]),
                    !.nextId = @ + 1],
          ret |-> db.nextId]

\* log_cost
log_cost(db, article_id, extraction_result_id, input_tokens, output_tokens, F) ==
    IF Faulted(F, "pipeline_costs", 0)
    THEN db
    ELSE [db EXCEPT !.pipeline_costs =
              Append(@, [article_id |-> article_id,
                         extraction_result_id |-> extraction_result_id,
                         input_tokens |-> input_tokens, output_tokens |-> output_tokens])]

\* PipelineOrchestrator._update_article_status: a store error is logged and
\* the row keeps its status.  error_message is written only when one is given.
update_article_status(db, article_id, status, error_message, F) ==
    IF Faulted(F, "articles", 0)
    THEN db
    ELSE [db EXCEPT !.articles[article_id] =
              [processing_status |-> status,
               error_message |-> IF TruthyStr(error_message) THEN error_message
                                 ELSE @.error_message]]

\* ------------------------------------------------------------ orchestrator
\* Variant: > in place of >= at both thresholds.
RouteMutant(confidence) ==
    IF confidence > CONFIDENCE_THRESHOLDS.auto_approve THEN "auto_approve"
    ELSE IF confidence > CONFIDENCE_THRESHOLDS.review_queue THEN "review_queue"
    ELSE "discard"

\* Variant: the discard threshold in place of the review threshold.
RouteWrongKeyMutant(confidence) ==
    IF confidence >= CONFIDENCE_THRESHOLDS.auto_approve THEN "auto_approve"
    ELSE IF confidence >= CONFIDENCE_THRESHOLDS.discard THEN "review_queue"
    ELSE "discard"

\* orchestrator.py 145-198: the branch taken for an overall confidence.
Route(confidence) ==
    IF confidence >= CONFIDENCE_THRESHOLDS.auto_approve THEN "auto_approve"
    ELSE IF confidence >= CONFIDENCE_THRESHOLDS.review_queue THEN "review_queue"
    ELSE "discard"

\* entity.get("confidence_score", confidence); NoneInt encodes an absent key.
EntityConfidence(entity, confidence) ==
    IF entity.confidence_score = NoneInt THEN confidence ELSE entity.confidence_score

\* One entry of the log of the calls made for an article: the operation, the
\* number of the entity it is for, what it returned, and for upsert_company
\* the matched id, the company row before and after and the confidence
\* passed; for insert_relationships the name-to-id map passed; for insert_event
\* the company id passed; for _update_article_status the status.
Call(op, idx, ret, matched, before, after, map, arg) ==
    [op |-> op, idx |-> idx, ret |-> ret, matched |-> matched,
     before |-> before, after |-> after, map |-> map, arg |-> arg]

UpsertCall(i, up, conf) ==
    Call("upsert_company", i, up.ret, up.matched, up.before, up.after, <<>>, conf)

EventCall(i, ev, company_id) ==
    Call("insert_event", i, ev.ret, 0, NoRow, NoRow, <<>>, company_id)

StatusCall(status) == Call("update_article_status", 0, 0, 0, NoRow, NoRow, <<>>, status)

\* Variant: the event does not wait for the id of the upsert.
CallsEventMutant(entity, company_id) == entity.mention_type = "primary_subject"

\* orchestrator.py 159-165: an event is written for an upserted primary subject.
CallsEvent(entity, company_id) ==
    company_id # 0 /\ entity.mention_type = "primary_subject"

\* Line 165, ev being what insert_event returned.
AfterEvent(st, entity_name, i, up, conf, ev) ==
    [db |-> ev.db,
     company_name_to_id |-> MapPut(st.company_name_to_id, entity_name, up.ret),
     calls |-> st.calls \o <<UpsertCall(i, up, conf), EventCall(i, ev, up.ret)>>,
     entities_created |-> st.entities_created + 1]

\* Lines 159-165, up being what upsert_company returned.
\* st = [db, company_name_to_id, calls, entities_created].
AfterUpsert(st, entity, entity_name, article_url, i, up, conf, F) ==
    IF CallsEvent(entity, up.ret)
    THEN AfterEvent(st, entity_name, i, up, conf,
                    insert_event(up.db, entity, up.ret, article_url, conf, F, i))
    ELSE IF up.ret # 0
    THEN [db |-> up.db,
          company_name_to_id |-> MapPut(st.company_name_to_id, entity_name, up.ret),
          calls |-> Append(st.calls, UpsertCall(i, up, conf)),
          entities_created |-> st.entities_created + 1]
    ELSE [st EXCEPT !.db = up.db, !.calls = Append(@, UpsertCall(i, up, conf))]

\* Variant: entities without a name are upserted too.
UpsertsEntityMutant(entity_name) == TRUE

\* orchestrator.py 153-155: entities without a name are passed over.
UpsertsEntity(entity_name) == entity_name # <<>>

\* One iteration of the entity loop (lines 152-165), for entity i.
ProcessEntity(st, entity, article_id, article_url, confidence, F, i) ==
    IF ~UpsertsEntity(Strip(OrEmpty(entity.company_name)))
    THEN st
    ELSE AfterUpsert(st, entity, Strip(OrEmpty(entity.company_name)), article_url, i,
                     upsert_company(st.db, entity, article_id,
                                    EntityConfidence(entity, confidence), F, i),
                     EntityConfidence(entity, confidence), F)

RECURSIVE EntityLoop(_, _, _, _, _, _, _)
EntityLoop(st, entities, article_id, article_url, confidence, F, i) ==
    IF i > Len(entities) THEN st
    ELSE EntityLoop(ProcessEntity(st, entities[i], article_id, article_url, confidence, F, i),
                    entities, article_id, article_url, confidence, F, i + 1)

Outcome(db, results, route, calls) ==
    [db |-> db, results |-> results, route |-> route, calls |-> calls]

\* Lines 174-175.
FinishAutoApprove(db, results, article_id, calls, entities_created, rel_count, F) ==
    Outcome(update_article_status(db, article_id, "extracted", NoneStr, F),
            [results EXCEPT
                !.entities_created = @ + entities_created,
                !.relationships_created = @ + rel_count,
                !.approved = @ + 1,
                !.processed = @ + 1],
            "auto_approve", Append(calls, StatusCall("extracted")))

\* Lines 169-172, rel being what insert_relationships returned.
AfterRelationships(st, rel, results, article_id, F) ==
    FinishAutoApprove(rel.db, results, article_id,
                      Append(st.calls,
                             Call("insert_relationships", 0, rel.inserted, 0, NoRow, NoRow,
                                  st.company_name_to_id, 0)),
                      st.entities_created, rel.inserted, F)

\* Lines 167-175, st being the state the entity loop ended in.
AfterEntities(st, results, extraction, article_id, article_url, confidence, F) ==
    IF extraction.relationships # <<>>
    THEN AfterRelationships(st,
             insert_relationships(st.db, extraction.relationships, st.company_name_to_id,
                                  article_url, confidence, F),
             results, article_id, F)
    ELSE FinishAutoApprove(st.db, results, article_id, st.calls, st.entities_created, 0, F)

\* The auto-approve branch (lines 148-180).
AutoApprove(db, results, extraction, article_id, article_url, confidence, F) ==
    AfterEntities(
        EntityLoop([db |-> db, company_name_to_id |-> <<>>, calls |-> <<>>,
                    entities_created |-> 0],
                   extraction.entities, article_id, article_url, confidence, F, 1),
        results, extraction, article_id, article_url, confidence, F)

\* Variant: the two statuses of the review branch exchanged.
ReviewStatusMutant(review_id) == IF review_id # 0 THEN "failed" ELSE "extracted"

\* Lines 188-193: the status after add_to_review_queue returned review_id.
ReviewStatus(review_id) == IF review_id # 0 THEN "extracted" ELSE "failed"

\* Lines 188-194, rq being what add_to_review_queue returned.
AfterReviewInsert(rq, results, article_id, F) ==
    Outcome(update_article_status(rq.db, article_id, ReviewStatus(rq.ret),
                                  IF rq.ret # 0 THEN NoneStr
                                  ELSE "Failed to add to review queue", F),
            IF rq.ret # 0
            THEN [results EXCEPT !.review_queue = @ + 1, !.processed = @ + 1]
            ELSE [results EXCEPT !.failed = @ + 1, !.processed = @ + 1],
            "review_queue",
            <<Call("add_to_review_queue", 0, rq.ret, 0, NoRow, NoRow, <<>>, 0),
              StatusCall(ReviewStatus(rq.ret))>>)

\* The review branch (lines 182-194).
SendToReview(db, results, extraction, article_id, result_id, confidence, F) ==
    AfterReviewInsert(add_to_review_queue(db, article_id, result_id, extraction, confidence, F),
                      results, article_id, F)

\* The discard branch (lines 195-198).
Discard(db, results, article_id, F) ==
    Outcome(update_article_status(db, article_id, "skipped",
                                  "Confidence below minimum threshold", F),
            [results EXCEPT !.processed = @ + 1],
            "discard", <<StatusCall("skipped")>>)

\* Variant: the failure is counted and logged, the article is not updated.
FailedMutant(db, results, article_id, error_message, F) ==
    Outcome(db, [results EXCEPT !.failed = @ + 1], "none", <<StatusCall("failed")>>)

\* Lines 118-122, 134-137 and 202-205: the article is marked failed.
Failed(db, results, article_id, error_message, F) ==
    Outcome(update_article_status(db, article_id, "failed", error_message, F),
            [results EXCEPT !.failed = @ + 1],
            "none", <<StatusCall("failed")>>)

\* Lines 144-198, db being the store after log_cost.
RouteTo(route, db, results, extraction, article_id, result_id, F) ==
    IF route = "auto_approve"
    THEN AutoApprove(db, results, extraction, article_id, article_id,
                     extraction.overall_confidence, F)
    ELSE IF route = "review_queue"
    THEN SendToReview(db, results, extraction, article_id, result_id,
                      extraction.overall_confidence, F)
    ELSE Discard(db, results, article_id, F)

\* Variant: the returned id is not tested.
AfterSaveMutant(saved, results, extraction, article_id, F) ==
    RouteTo(Route(extraction.overall_confidence),
            log_cost(saved.db, article_id, saved.ret,
                     extraction.input_tokens, extraction.output_tokens, F),
            results, extraction, article_id, saved.ret, F)

\* Lines 134-198, saved being what save_extraction_result returned.
AfterSave(saved, results, extraction, article_id, F) ==
    IF saved.ret = 0
    THEN Failed(saved.db, results, article_id, "Failed to save extraction result", F)
    ELSE RouteTo(Route(extraction.overall_confidence),
                 log_cost(saved.db, article_id, saved.ret,
                          extraction.input_tokens, extraction.output_tokens, F),
                 results, extraction, article_id, saved.ret, F)

\* The body of the article loop of process_extraction_queue (lines 106-205)
\* for one fetched article, given what the extractor did and the injected
\* store errors F.  The article's source_url is modelled by its id.
ProcessOne(db, results, article_id, extraction, F) ==
    IF extraction.raised
    THEN Failed(db, results, article_id, "Processing error", F)
    ELSE IF extraction.entities = <<>>
    THEN Failed(db, results, article_id, "No entities extracted", F)
    ELSE AfterSave(save_extraction_result(db, article_id, extraction,
                                          extraction.overall_confidence, F),
                   results, extraction, article_id, F)

\* ------------------------------------------------------------- review UI
\* data.get(key) on the JSON object held by a review item or passed as
\* edited_data: None when the object has no such key.
GetName(data, key) == IF key \in DOMAIN data THEN data[key] ELSE NoneName
GetStr(data, key) == IF key \in DOMAIN data THEN data[key] ELSE NoneStr

ReviewItemById(rows, review_id) ==
    SelectSeq(rows, LAMBDA r : r.id = review_id)[1]

UpdateReviewItem(rows, row) ==
    [k \in 1..Len(rows) |-> IF rows[k].id = row.id THEN row ELSE rows[k]]

\* review_helpers.py 146-156
ReviewEventType(event_type) ==
    CASE event_type = "new_factory" -> "New Factory"
      [] event_type = "partnership" -> "Partnership"
      [] event_type = "investment" -> "Investment"
      [] event_type = "acquisition" -> "Acquisition"
      [] event_type = "export_milestone" -> "Export Milestone"
      [] OTHER -> "Other"

NoEdit == [edited |-> FALSE]

\* Variant: approve_item proceeds without a company_name.
ApprovableMutant(data) == TRUE

\* review_helpers.py 100-103: approval goes on only for a payload that has a
\* top-level company_name.
Approvable(data) == TruthyName(GetName(data, "company_name"))

\* Lines 169-180: the review item and its article are updated.
MarkReviewed(db, item, status, company_id, event_id) ==
    [db EXCEPT
        !.review_queue = UpdateReviewItem(@,
            [item EXCEPT !.status = status,
                         !.linked_company_id = company_id,
                         !.linked_event_id = event_id]),
        !.articles[item.article_id].processing_status = "reviewed"]

\* Lines 143-180, the company being resolved to company_id in db.
ApproveWithCompany(db, item, data, status, company_id) ==
    MarkReviewed(
        [db EXCEPT
            !.events = Append(@, [event_id |-> db.nextId, company_id |-> company_id,
                                  event_type |-> ReviewEventType(GetStr(data, "event_type")),
                                  source_url |-> 0,
                                  confidence_score |-> item.confidence_score]),
            !.nextId = @ + 1],
        item, status, company_id, db.nextId)

\* Lines 105-141, existing being the companies whose name contains the name.
ApproveResolved(db, item, data, status, existing) ==
    IF existing # <<>>
    THEN ApproveWithCompany(db, item, data, status, existing[1].company_id)
    ELSE ApproveWithCompany(
             [db EXCEPT
                 !.companies = Append(@,
                     [company_id |-> db.nextId,
                      company_name |-> GetName(data, "company_name"),
                      headquarters_city |-> GetStr(data, "city"),
                      employee_count |-> NoneInt,
                      data_confidence |-> item.confidence_score,
                      updated_at |-> NoneInt]),
                 !.nextId = @ + 1],
             item, data, status, db.nextId)

\* Lines 96-182, item being the review item.
ApproveData(db, item, data, status) ==
    IF ~Approvable(data)
    THEN [db |-> db, ret |-> FALSE]
    ELSE [db |-> ApproveResolved(db, item, data, status,
                     SelectSeq(db.companies,
                         LAMBDA c : ILike(c.company_name, GetName(data, "company_name")))),
          ret |-> TRUE]

\* approve_item(review_id, edited_data): returns [db, ret] with ret the
\* boolean it returns.  The review item exists.
approve_item(db, review_id, edited_data) ==
    IF edited_data # NoEdit
    THEN ApproveData(db, ReviewItemById(db.review_queue, review_id), edited_data, "edited")
    ELSE ApproveData(db, ReviewItemById(db.review_queue, review_id),
                     ReviewItemById(db.review_queue, review_id).extracted_data, "approved")

\* Lines 192-203 for the review item `item`.
RejectRow(db, item) ==
    [db EXCEPT
        !.review_queue = UpdateReviewItem(@, [item EXCEPT !.status = "rejected"]),
        !.articles[item.article_id].processing_status = "skipped"]

\* reject_item(review_id, notes)
reject_item(db, review_id) == RejectRow(db, ReviewItemById(db.review_queue, review_id))

SetReviewStatus(db, item, status) ==
    [db EXCEPT !.review_queue = UpdateReviewItem(@, [item EXCEPT !.status = status])]

\* admin_helpers.approve_review(review_id)
approve_review(db, review_id) ==
    SetReviewStatus(db, ReviewItemById(db.review_queue, review_id), "approved")

\* admin_helpers.reject_review(review_id)
reject_review(db, review_id) ==
    SetReviewStatus(db, ReviewItemById(db.review_queue, review_id), "rejected")

\* ------------------------------------------------------------------ inputs
Entity(company_name, mention_type, employee_count, city, confidence_score, management_mentions, event_type) ==
    [company_name |-> company_name, mention_type |-> mention_type,
     employee_count |-> employee_count, city |-> city,
     confidence_score |-> confidence_score,
     management_mentions |-> management_mentions, event_type |-> event_type]

Relationship(source_company, target_company, relationship_type) ==
    [source_company |-> source_company, target_company |-> target_company,
     relationship_type |-> relationship_type]

Extraction(entities, relationships, overall_confidence) ==
    [raised |-> FALSE, entities |-> entities, relationships |-> relationships,
     overall_confidence |-> overall_confidence, input_tokens |-> 100, output_tokens |-> 50]

\* extract_company_data raised (input error, retries exhausted, bad JSON).
ExtractorRaised ==
    [raised |-> TRUE, entities |-> <<>>, relationships |-> <<>>,
     overall_confidence |-> 0, input_tokens |-> 0, output_tokens |-> 0]

Person == [name |-> <<"p">>]

\* One primary subject, nothing else known about it.
OneSubject == <<Entity(<<"a">>, "primary_subject", NoneInt, NoneStr, NoneInt, <<>>, "new_factory")>>

\* An entity without a name and one whose name is blank.
Nameless ==
    <<Entity(NoneName, "primary_subject", 5, "Rabat", 900, <<>>, "investment"),
      Entity(<<" ">>, "mentioned", NoneInt, NoneStr, 900, <<>>, "other")>>

\* A primary subject with a zero head count and an empty city.
ZeroStaff == Entity(<<"A">>, "primary_subject", 0, "", 900, <<Person>>, "hiring")

\* The same entity twice.
Twice == <<ZeroStaff, ZeroStaff>>

\* The same company again in another spelling and with other field values.
Respelled ==
    <<ZeroStaff, Entity(<<"a", " ">>, "mentioned", 5, "Fes", 600, <<Person>>, "bogus")>>

\* Three names, the second contained in the first.
Contained ==
    <<Entity(<<"a", " ", "b">>, "mentioned", NoneInt, "Rabat", 950, <<>>, "partnership"),
      Entity(<<"b">>, "primary_subject", 7, "Tanger", 700, <<>>, "expansion"),
      Entity(<<"c">>, "mentioned", NoneInt, NoneStr, NoneInt, <<>>, "other")>>

TwoPartners ==
    <<Relationship(<<"a">>, <<"b">>, "partner"), Relationship(<<"a">>, <<"c">>, "supplier")>>

\* The same edge under two names of its source, and the reverse edge.
SameEdgeTwice ==
    <<Relationship(<<"a", " ", "b">>, <<"c">>, "partner"),
      Relationship(<<"b">>, <<"c">>, "partner"),
      Relationship(<<"c">>, <<"a", " ", "b">>, "supplier")>>

SelfEdge == <<Relationship(<<"A">>, <<"a">>, "partner")>>

BoundaryConfidences == {649, 650, 651, 849, 850, 851, 920}

\* Two companies the extractor is sure and less sure about.
Mixed ==
    <<Entity(<<"c">>, "primary_subject", NoneInt, "Rabat", 1000, <<>>, "investment"),
      Entity(<<"b">>, "mentioned", NoneInt, NoneStr, 700, <<>>, "other")>>

RECURSIVE SumOfConfidences(_)
SumOfConfidences(entities) ==
    IF entities = <<>> THEN 0
    ELSE Head(entities).confidence_score + SumOfConfidences(Tail(entities))

\* Lines 248-250 of _validate_extracted_data: round(sum(confidences) /
\* len(confidences), 2), in thousandths.
MeanConfidence(entities) ==
    (((SumOfConfidences(entities) \div Len(entities)) + 5) \div 10) * 10

\* What the extractor hands to the orchestrator for an article.
Extractions ==
    {Extraction(OneSubject, TwoPartners, c) : c \in BoundaryConfidences}
    \cup {Extraction(Nameless, <<>>, c) : c \in {450, 700, 920}}
    \cup {Extraction(<<>>, <<>>, c) : c \in {500, 700}}
    \cup {Extraction(Twice, SelfEdge, 920),
          Extraction(Respelled, SelfEdge, 920),
          Extraction(Contained, SameEdgeTwice, 920),
          Extraction(Mixed, <<>>, MeanConfidence(Mixed)),
          ExtractorRaised}

\* edited_data of approve_item: a flat, single-company object.
Edit(company_name, city, event_type) ==
    [company_name |-> company_name, city |-> city, event_type |-> event_type]

EditedData == {NoEdit, Edit(<<"a">>, "Fes", "investment"), Edit(<<"c">>, NoneStr, "hiring")}

\* The store operations an article's processing can issue.
FaultPointsOf(extraction) ==
    {FaultPoint(op, 0) : op \in {"extraction_results", "pipeline_costs", "review_queue", "articles"}}
    \cup {FaultPoint(op, i) : op \in {"find_matching_company", "companies", "events"},
                              i \in 1..Len(extraction.entities)}
    \cup {FaultPoint("company_relationships", j) : j \in 1..Len(extraction.relationships)}

RECURSIVE FaultSets(_, _)
FaultSets(points, k) ==
    IF k = 0 THEN {{}}
    ELSE LET smaller == FaultSets(points, k - 1)
         IN smaller \cup {S \cup {f} : S \in smaller, f \in points}

\* ------------------------------------------------------------------- state
VARIABLES
    articles,              \* articles: id -> [processing_status, error_message]
    companies,             \* table companies
    events,                \* table events
    company_relationships, \* table company_relationships
    partnerships,          \* legacy table partnerships
    company_articles,      \* table company_articles
    company_people,        \* table company_people
    review_queue,          \* table review_queue
    extraction_results,    \* table extraction_results
    pipeline_costs,        \* table pipeline_costs
    nextId,                \* the next generated identifier (uuid4, serial)
    clock,                 \* datetime.utcnow()
    pc,                    \* "idle", or "running" inside process_extraction_queue
    batch,                 \* fetched articles still to be processed
    fetched,               \* the articles the run fetched (`articles` of line 102)
    results,               \* the run's result counters
    last,                  \* the operation the last step performed
    budget,                \* what the bounds still allow
    unreliable,            \* whether store operations may raise
    qa,                    \* a QualityAssurance run and the tables it works on
    extractor,             \* a call of extract_company_data
    writers,               \* pipeline runs upserting companies side by side
    validation             \* a payload of the model and what its validation made of it

tables == <<articles, companies, events, company_relationships, partnerships,
            company_articles, company_people, review_queue, extraction_results,
            pipeline_costs, nextId, clock>>

vars == <<articles, companies, events, company_relationships, partnerships,
          company_articles, company_people, review_queue, extraction_results,
          pipeline_costs, nextId, clock, pc, batch, fetched, results, last,
          budget, unreliable, qa, extractor, writers, validation>>

\* The store as one value, as the operators above take and return it.
DB ==
    [articles |-> articles, companies |-> companies, events |-> events,
     company_relationships |-> company_relationships, partnerships |-> partnerships,
     company_articles |-> company_articles, company_people |-> company_people,
     review_queue |-> review_queue, extraction_results |-> extraction_results,
     pipeline_costs |-> pipeline_costs, nextId |-> nextId, clock |-> clock]

Store(db) ==
    /\ articles' = db.articles
    /\ companies' = db.companies
    /\ events' = db.events
    /\ company_relationships' = db.company_relationships
    /\ partnerships' = db.partnerships
    /\ company_articles' = db.company_articles
    /\ company_people' = db.company_people
    /\ review_queue' = db.review_queue
    /\ extraction_results' = db.extraction_results
    /\ pipeline_costs' = db.pipeline_costs
    /\ nextId' = db.nextId
    /\ clock' = db.clock

ArticleIds == 1..NumArticles

ZeroResults ==
    [processed |-> 0, entities_created |-> 0, relationships_created |-> 0,
     approved |-> 0, review_queue |-> 0, failed |-> 0]

Last(op, article_id, review_id, extraction, faults, route, calls) ==
    [op |-> op, article_id |-> article_id, review_id |-> review_id,
     extraction |-> extraction, faults |-> faults, route |-> route, calls |-> calls]

InitStore ==
    /\ articles = [a \in ArticleIds |->
                      [processing_status |-> "pending", error_message |-> NoneStr]]
    /\ companies = <<>>
    /\ events = <<>>
    /\ company_relationships = <<>>
    /\ partnerships = <<>>
    /\ company_articles = {}
    /\ company_people = <<>>
    /\ review_queue = <<>>
    /\ extraction_results = <<>>
    /\ pipeline_costs = <<>>
    /\ nextId = 1
    /\ clock = 0
    /\ pc = "idle"
    /\ batch = <<>>
    /\ fetched = <<>>
    /\ results = ZeroResults
    /\ last = Last("init", 0, 0, ExtractorRaised, {}, "none", <<>>)

InitCommon ==
    /\ InitStore
    /\ budget = [processed |-> MaxProcessed, reprocess |-> MaxReprocess,
                 review |-> MaxReviewOps, faults |-> MaxFaults]

\* No sweep is running over the store.
NotRun == [pc |-> "idle"]

\* No call of the extractor is open.
NotCalled == [pc |-> "idle"]

\* No run is upserting beside another.
NoWriters == <<>>

\* No payload is being validated.
NoPayload == [pc |-> "idle"]

\* The store answers every operation.
Init == InitCommon /\ unreliable = FALSE /\ qa = NotRun /\ extractor = NotCalled /\ writers = NoWriters /\ validation = NoPayload

\* The store answers every operation; runs of one article, and reviewers who
\* press a button up to MaxDecisions times.
InitReview ==
    /\ InitStore
    /\ budget = [processed |-> 1, reprocess |-> 1, review |-> MaxDecisions, faults |-> 0]
    /\ unreliable = FALSE
    /\ qa = NotRun
    /\ extractor = NotCalled
    /\ writers = NoWriters
    /\ validation = NoPayload

\* Store operations may raise.
InitUnreliable == InitCommon /\ unreliable = TRUE /\ qa = NotRun /\ extractor = NotCalled /\ writers = NoWriters /\ validation = NoPayload

\* ----------------------------------------------------------------- actions
\* select * from articles where processing_status = 'pending' limit <limit>
FirstRows(rows, limit) == SubSeq(rows, 1, IF Len(rows) < limit THEN Len(rows) ELSE limit)

PendingArticles(arts, limit) ==
    FirstRows(SelectSeq([a \in 1..NumArticles |-> a],
                        LAMBDA a : arts[a].processing_status = "pending"),
              limit)

\* Variant: only failed and skipped articles are reset.
ResetArticlesMutant(arts) ==
    [a \in DOMAIN arts |->
        IF arts[a].processing_status \in {"failed", "skipped"}
        THEN [processing_status |-> "pending", error_message |-> NoneStr]
        ELSE arts[a]]

\* main() with --reprocess, lines 284-288: every article that is not pending
\* becomes pending and loses its error message.
ResetArticles(arts) ==
    [a \in DOMAIN arts |->
        IF arts[a].processing_status # "pending"
        THEN [processing_status |-> "pending", error_message |-> NoneStr]
        ELSE arts[a]]

StartRun(op, arts, b) ==
    /\ pc = "idle"
    /\ Len(b) <= budget.processed
    /\ pc' = "running"
    /\ batch' = b
    /\ fetched' = b
    /\ results' = ZeroResults
    /\ articles' = arts
    /\ last' = Last(op, 0, 0, ExtractorRaised, {}, "none", <<>>)

\* process_extraction_queue(limit) up to its article loop.
FetchBatch ==
    \E limit \in 1..NumArticles :
        /\ StartRun("process_extraction_queue", articles, PendingArticles(articles, limit))
        /\ budget' = [budget EXCEPT !.processed = @ - Len(PendingArticles(articles, limit))]
        /\ UNCHANGED <<companies, events, company_relationships, partnerships,
                       company_articles, company_people, review_queue,
                       extraction_results, pipeline_costs, nextId, clock, unreliable, qa, extractor, writers, validation>>

\* main() with --reprocess, up to the article loop of the run it starts.
Reprocess ==
    \E limit \in 1..NumArticles :
        /\ budget.reprocess > 0
        /\ StartRun("reprocess", ResetArticles(articles),
                    PendingArticles(ResetArticles(articles), limit))
        /\ budget' = [budget EXCEPT
                         !.reprocess = @ - 1,
                         !.processed = @ - Len(PendingArticles(ResetArticles(articles), limit))]
        /\ UNCHANGED <<companies, events, company_relationships, partnerships,
                       company_articles, company_people, review_queue,
                       extraction_results, pipeline_costs, nextId, clock, unreliable, qa, extractor, writers, validation>>

\* The store, the counters and the log after one iteration that ended in out.
Commit(out, article_id, extraction, F) ==
    /\ Store(out.db)
    /\ results' = out.results
    /\ last' = Last("process_article", article_id, 0, extraction, F, out.route, out.calls)
    /\ budget' = [budget EXCEPT !.faults = @ - Cardinality(F)]

\* One iteration of the article loop.
ProcessArticle ==
    /\ pc = "running"
    /\ batch # <<>>
    /\ \E extraction \in Extractions :
         \E F \in FaultSets(FaultPointsOf(extraction),
                            IF unreliable THEN budget.faults ELSE 0) :
            Commit(ProcessOne(DB, results, Head(batch), extraction, F),
                   Head(batch), extraction, F)
    /\ batch' = Tail(batch)
    /\ UNCHANGED <<pc, fetched, unreliable, qa, extractor, writers, validation>>

\* process_extraction_queue returns its counters.
EndRun ==
    /\ pc = "running"
    /\ batch = <<>>
    /\ pc' = "idle"
    /\ last' = Last("end_run", 0, 0, ExtractorRaised, {}, "none", <<>>)
    /\ UNCHANGED <<tables, batch, fetched, results, budget, unreliable, qa, extractor, writers, validation>>

\* A review action: the dashboards are used between runs of the orchestrator.
ReviewStep(op, review_id, db) ==
    /\ pc = "idle"
    /\ budget.review > 0
    /\ Store(db)
    /\ last' = Last(op, ReviewItemById(review_queue, review_id).article_id, review_id,
                    ExtractorRaised, {}, "none", <<>>)
    /\ budget' = [budget EXCEPT !.review = @ - 1]
    /\ UNCHANGED <<pc, batch, fetched, results, unreliable, qa, extractor, writers, validation>>

ReviewIds == {review_queue[k].id : k \in 1..Len(review_queue)}

\* The review tab's Approve button, and approve_item with edited data.
ApproveItem ==
    \E review_id \in ReviewIds : \E edited_data \in EditedData :
        ReviewStep(IF edited_data = NoEdit THEN "approve_item" ELSE "approve_item_edited",
                   review_id, approve_item(DB, review_id, edited_data).db)

\* The review tab's Reject button.
RejectItem ==
    \E review_id \in ReviewIds :
        ReviewStep("reject_item", review_id, reject_item(DB, review_id))

\* The admin dashboard's Approve button.
ApproveReview ==
    \E review_id \in ReviewIds :
        ReviewStep("approve_review", review_id, approve_review(DB, review_id))

\* The admin dashboard's Reject button.
RejectReview ==
    \E review_id \in ReviewIds :
        ReviewStep("reject_review", review_id, reject_review(DB, review_id))

Next ==
    \/ FetchBatch
    \/ Reprocess
    \/ ProcessArticle
    \/ EndRun
    \/ ApproveItem
    \/ RejectItem
    \/ ApproveReview
    \/ RejectReview

Spec == Init /\ [][Next]_vars

SpecUnreliable == InitUnreliable /\ [][Next]_vars

SpecReview == InitReview /\ [][Next]_vars

\* ======================================================= quality assurance
\* ---------------------------------------------------------------- bounds
MaxCompanies == 3

\* ------------------------------------------------------------ str methods
UpperChar(c) == IF c = "a" THEN "A" ELSE IF c = "b" THEN "B" ELSE IF c = "c" THEN "C" ELSE IF c = "s" THEN "S" ELSE c

\* \w of the regular expressions
IsWordChar(c) == c \notin {" ", ".", "-"}

\* str.title()
Title(s) == [i \in 1..Len(s) |-> IF i = 1 \/ ~IsWordChar(s[i - 1]) THEN UpperChar(s[i]) ELSE LowerChar(s[i])]

\* re.sub(r'\s+', ' ', s)
RECURSIVE CollapseSpaces(_)
CollapseSpaces(s) ==
    IF Len(s) < 2 THEN s
    ELSE IF s[1] = " " /\ s[2] = " " THEN CollapseSpaces(Tail(s))
    ELSE <<s[1]>> \o CollapseSpaces(Tail(s))

CITY_NORMALIZATION == [key \in {<<"c", "a", "s", "a">>, <<"c", "a", "s", "a", "b", "l", "a", "n", "c", "a">>} |-> <<"C", "a", "s", "a", "b", "l", "a", "n", "c", "a">>]

\* The alternatives of LEGAL_SUFFIXES, lowered (the expression ignores case).
LEGAL_SUFFIXES ==
    {<<"s", "a">>, <<"s", "a", "r", "l">>, <<"s", "a", "s">>, <<"s", "a", "s", "u">>,
     <<"s", "c", "a">>, <<"s", "n", "c">>, <<"s", "a", "r", "l", " ", "a", "u">>,
     <<"g", "i", "e">>, <<"s", ".", "a">>, <<"s", ".", "a", ".">>,
     <<"s", ".", "a", ".", "r", ".", "l">>, <<"s", ".", "a", ".", "r", ".", "l", ".">>,
     <<"s", ".", "a", ".", "s">>, <<"s", ".", "a", ".", "s", ".">>}

\* Where \b(...)\s*$ matches in a stripped name: the leftmost word start from
\* which the rest of the name is one of the suffixes; 0 when there is none.
SuffixStarts(cleaned) ==
    {p \in 1..Len(cleaned) :
        /\ p = 1 \/ ~IsWordChar(cleaned[p - 1])
        /\ Lower(SubSeq(cleaned, p, Len(cleaned))) \in LEGAL_SUFFIXES}

SuffixStart(starts) == IF starts = {} THEN 0 ELSE CHOOSE p \in starts : \A q \in starts : p <= q

\* LEGAL_SUFFIXES.sub("", cleaned)
StripSuffix(cleaned, p) == IF p = 0 THEN cleaned ELSE SubSeq(cleaned, 1, p - 1)

normalize_company_name(name) ==
    IF ~TruthyName(name) THEN <<>>
    ELSE Lower(CollapseSpaces(Strip(StripSuffix(Strip(name), SuffixStart(SuffixStarts(Strip(name)))))))

Min3(a, b, c) == IF a <= b /\ a <= c THEN a ELSE IF b <= c THEN b ELSE c

\* The inner loop of levenshtein_distance: curr_row grows to Len(s2) + 1 cells.
RECURSIVE LevCurrRow(_, _, _, _)
LevCurrRow(prev_row, curr_row, c1, s2) ==
    IF Len(curr_row) > Len(s2) THEN curr_row
    ELSE LevCurrRow(prev_row,
                    Append(curr_row,
                           Min3(prev_row[Len(curr_row) + 1] + 1,
                                curr_row[Len(curr_row)] + 1,
                                prev_row[Len(curr_row)] + (IF c1 # s2[Len(curr_row)] THEN 1 ELSE 0))),
                    c1, s2)

\* The outer loop of levenshtein_distance.
RECURSIVE LevRows(_, _, _, _)
LevRows(prev_row, s1, s2, i) ==
    IF i > Len(s1) THEN prev_row[Len(prev_row)]
    ELSE LevRows(LevCurrRow(prev_row, <<i>>, s1[i], s2), s1, s2, i + 1)

LevLongFirst(s1, s2) ==
    IF Len(s2) = 0 THEN Len(s1)
    ELSE LevRows([j \in 1..(Len(s2) + 1) |-> j - 1], s1, s2, 1)

levenshtein_distance(s1, s2) == IF Len(s1) < Len(s2) THEN LevLongFirst(s2, s1) ELSE LevLongFirst(s1, s2)

TitleOrMapped(city_stripped, lookup) ==
    IF lookup \in DOMAIN CITY_NORMALIZATION THEN CITY_NORMALIZATION[lookup] ELSE Title(city_stripped)

normalize_city(city) ==
    IF ~TruthyName(city) THEN NoneName ELSE TitleOrMapped(Strip(city), Lower(Strip(city)))

\* ------------------------------------------------------- rows of the sweep
\* A row of companies as select("*") returns it to the sweep.
QACompany(id, company_name, data_confidence, sector, headquarters_city, employee_count) ==
    [id |-> id, company_name |-> company_name, data_confidence |-> data_confidence,
     sector |-> sector, headquarters_city |-> headquarters_city,
     employee_count |-> employee_count]

\* None in the column of a field.
NoneOf(field) ==
    IF field \in {"company_name", "headquarters_city"} THEN NoneName
    ELSE IF field \in {"data_confidence", "employee_count"} THEN NoneInt
    ELSE NoneStr

\* The fields of fillable_fields that the rows carry.
fillable_fields == {"sector", "headquarters_city", "employee_count"}

\* sum(1 for v in c.values() if v is not None); the id is never None.
NonNullFields(c) == 1 + Cardinality({f \in DOMAIN c \ {"id"} : c[f] # NoneOf(f)})

\* c.get("data_confidence") or 0
ConfOrZero(c) == IF c.data_confidence = NoneInt THEN 0 ELSE c.data_confidence

\* A row of data_quality_log written by _log_action.
LogRow(action_type, entity_id, other_id, fields, commit) ==
    [action_type |-> action_type, entity_id |-> entity_id, other_id |-> other_id,
     fields |-> fields, applied |-> commit]

\* An operation the sweep issued to the store, in the order of issue.
QAOp(op, table, id, action_type, data, before) ==
    [op |-> op, table |-> table, id |-> id, action_type |-> action_type,
     data |-> data, before |-> before]

NoData == [f \in {} |-> NoneStr]

\* The sweep: its flag, the tables it reads and writes, and where run() stands.
QAState(at, commit, comps, raws, log, duplicates, ops) ==
    [pc |-> at, commit |-> commit, companies |-> comps, extraction_results |-> raws,
     data_quality_log |-> log, duplicates |-> duplicates, ops |-> ops]

\* QualityAssurance(supabase_client, commit) over a store holding these rows
QualityAssurance(comps, raws, commit) ==
    QAState("find_duplicates", commit, comps, raws, <<>>, <<>>, <<>>)

\* self._log_action(action_type, entity_id, details)
LogAction(st, action_type, entity_id, other_id, fields) ==
    [st EXCEPT !.data_quality_log = Append(@, LogRow(action_type, entity_id, other_id, fields, st.commit)),
               !.ops = Append(@, QAOp("insert", "data_quality_log", entity_id, action_type, fields, NoData))]

RowIndex(comps, id) == CHOOSE k \in 1..Len(comps) : comps[k].id = id

WithUpdate(row, update_data) ==
    [f \in DOMAIN row |-> IF f \in DOMAIN update_data THEN update_data[f] ELSE row[f]]

\* self.supabase.table("companies").update(update_data).eq("id", id).execute()
UpdateCompanyRow(st, id, update_data, k) ==
    [st EXCEPT !.companies[k] = WithUpdate(@, update_data),
               !.ops = Append(@, QAOp("update", "companies", id, "", update_data, st.companies[k]))]

\* Variant: the update is issued in both modes.
ApplyAlwaysMutant(st, commit, id, update_data) ==
    UpdateCompanyRow(st, id, update_data, RowIndex(st.companies, id))

\* if self.commit: the update is issued
ApplyIfCommit(st, commit, id, update_data) ==
    IF commit THEN UpdateCompanyRow(st, id, update_data, RowIndex(st.companies, id)) ELSE st

\* ---------------------------------------------------------- find_duplicates
Flagged(name1, name2, dist) ==
    dist <= 2 /\ dist < (IF Len(name1) > Len(name2) THEN Len(name1) ELSE Len(name2))

\* Variant: only empty names are passed over.
SkippedMutant(name) == name = <<>>

\* if not name or len(name) < 3: continue
Skipped(name) == name = <<>> \/ Len(name) < 3

LenDiff(name1, name2) == IF Len(name1) > Len(name2) THEN Len(name1) - Len(name2) ELSE Len(name2) - Len(name1)

IsDuplicate(name1, name2) ==
    /\ ~Skipped(name1)
    /\ ~Skipped(name2)
    /\ LenDiff(name1, name2) <= 2
    /\ Flagged(name1, name2, levenshtein_distance(name1, name2))

Duplicate(c1, c2, name1, name2) == [c1 |-> c1, c2 |-> c2, dist |-> levenshtein_distance(name1, name2)]

\* The two loops of find_duplicates over the fetched rows, i before j.
RECURSIVE FindLoop(_, _, _, _)
FindLoop(comps, i, j, duplicates) ==
    IF i > Len(comps) THEN duplicates
    ELSE IF j > Len(comps) THEN FindLoop(comps, i + 1, i + 2, duplicates)
    ELSE IF IsDuplicate(normalize_company_name(comps[i].company_name),
                        normalize_company_name(comps[j].company_name))
    THEN FindLoop(comps, i, j + 1,
                  Append(duplicates,
                         Duplicate(comps[i], comps[j],
                                   normalize_company_name(comps[i].company_name),
                                   normalize_company_name(comps[j].company_name))))
    ELSE FindLoop(comps, i, j + 1, duplicates)

find_duplicates(comps) == FindLoop(comps, 1, 2, <<>>)

\* --------------------------------------------------------- merge_duplicates
\* if conf1 >= conf2 or (conf1 == conf2 and fields1 >= fields2)
KeepsFirst(conf1, conf2, fields1, fields2) ==
    conf1 >= conf2 \/ (conf1 = conf2 /\ fields1 >= fields2)

FirstIsKeeper(c1, c2) == KeepsFirst(ConfOrZero(c1), ConfOrZero(c2), NonNullFields(c1), NonNullFields(c2))

Keeper(d) == IF FirstIsKeeper(d.c1, d.c2) THEN d.c1 ELSE d.c2

Loser(d) == IF FirstIsKeeper(d.c1, d.c2) THEN d.c2 ELSE d.c1

\* update_data of one pair, from the rows find_duplicates returned
MergeUpdate(keeper, duplicate) ==
    [f \in {g \in fillable_fields : keeper[g] = NoneOf(g) /\ duplicate[g] # NoneOf(g)} |-> duplicate[f]]

\* if self.commit and update_data
MergeApplies(commit, update_data) == commit /\ DOMAIN update_data # {}

MergeOne(st, keeper, duplicate, update_data) ==
    ApplyIfCommit(LogAction(st, "merge", keeper.id, duplicate.id, DOMAIN update_data),
                  MergeApplies(st.commit, update_data), keeper.id, update_data)

RECURSIVE MergeLoop(_, _, _)
MergeLoop(st, duplicates, k) ==
    IF k > Len(duplicates) THEN st
    ELSE MergeLoop(MergeOne(st, Keeper(duplicates[k]), Loser(duplicates[k]),
                            MergeUpdate(Keeper(duplicates[k]), Loser(duplicates[k]))),
                   duplicates, k + 1)

merge_duplicates(st, duplicates) == MergeLoop(st, duplicates, 1)

\* --------------------------------------------------------------- fill_nulls
\* An entity of a stored raw_extraction, as fill_nulls reads it.
QAEntity(company_name, sector, headquarters_city) ==
    [company_name |-> company_name, sector |-> sector, headquarters_city |-> headquarters_city]

\* .contains("raw_extraction", {"entities": [{"company_name": name}]})
ContainsEntity(raw_extraction, company_name) ==
    \E k \in 1..Len(raw_extraction) : raw_extraction[k].company_name = company_name

RECURSIVE Flatten(_)
Flatten(rows) == IF rows = <<>> THEN <<>> ELSE Head(rows) \o Flatten(Tail(rows))

\* The entities the two loops visit, in the order they visit them.
VisitedEntities(raws, company_name) ==
    Flatten(FirstRows(SelectSeq(raws, LAMBDA raw : ContainsEntity(raw, company_name)), 5))

InferredSector(found) == IF found = <<>> THEN NoneStr ELSE found[1].sector

InferredCity(found) == IF found = <<>> THEN NoneName ELSE normalize_city(found[1].headquarters_city)

\* The first visited entity of that name, whatever the case, with a sector.
SectorOf(visited, company_name) ==
    InferredSector(SelectSeq(visited, LAMBDA e : Lower(e.company_name) = Lower(company_name) /\ TruthyStr(e.sector)))

CityOf(visited, company_name) ==
    InferredCity(SelectSeq(visited, LAMBDA e : Lower(e.company_name) = Lower(company_name) /\ TruthyName(e.headquarters_city)))

FillData(company, sector, city) ==
    [f \in {g \in {"sector", "headquarters_city"} :
               \/ g = "sector" /\ ~TruthyStr(company.sector) /\ sector # NoneStr
               \/ g = "headquarters_city" /\ ~TruthyName(company.headquarters_city) /\ city # NoneName}
       |-> IF f = "sector" THEN sector ELSE city]

\* update_data of one company in fill_nulls
FillUpdate(company, visited) ==
    IF company.company_name = NoneName THEN NoData
    ELSE FillData(company, SectorOf(visited, company.company_name), CityOf(visited, company.company_name))

\* if update_data: log the action, then update when committing
LogThenApply(st, action_type, id, update_data) ==
    IF DOMAIN update_data = {} THEN st
    ELSE ApplyIfCommit(LogAction(st, action_type, id, 0, DOMAIN update_data), st.commit, id, update_data)

RECURSIVE FillLoop(_, _, _)
FillLoop(st, comps, k) ==
    IF k > Len(comps) THEN st
    ELSE FillLoop(LogThenApply(st, "null_fill", comps[k].id,
                               FillUpdate(comps[k], VisitedEntities(st.extraction_results, comps[k].company_name))),
                  comps, k + 1)

fill_nulls(st) == FillLoop(st, st.companies, 1)

\* ---------------------------------------------------------- normalize_names
NormalizeData(company, normalized, cleaned) ==
    [f \in {g \in {"headquarters_city", "company_name"} :
               \/ /\ g = "headquarters_city"
                  /\ TruthyName(company.headquarters_city)
                  /\ TruthyName(normalized)
                  /\ normalized # company.headquarters_city
               \/ /\ g = "company_name"
                  /\ TruthyName(company.company_name)
                  /\ cleaned # company.company_name}
       |-> IF f = "headquarters_city" THEN normalized ELSE cleaned]

\* update_data of one company in normalize_names
NormalizeUpdate(company) ==
    NormalizeData(company, normalize_city(company.headquarters_city),
                  CollapseSpaces(Strip(OrEmpty(company.company_name))))

RECURSIVE NormalizeLoop(_, _, _)
NormalizeLoop(st, comps, k) ==
    IF k > Len(comps) THEN st
    ELSE NormalizeLoop(LogThenApply(st, "name_normalize", comps[k].id, NormalizeUpdate(comps[k])),
                       comps, k + 1)

normalize_names(st) == NormalizeLoop(st, st.companies, 1)

\* generate_report logs the report as an info action of no entity
generate_report(st) == LogAction(st, "info", 0, 0, {})

\* ------------------------------------------------- the stores the sweep meets
Abc == <<"a", "b", "c">>

CompanyPool ==
    {QACompany(0, Abc \o <<" ", "S", "A">>, 900, NoneStr, NoneName, NoneInt),
     QACompany(0, <<"A", "B", "C">>, 900, "Automotive", <<"c", "a", "s", "a">>, 5),
     QACompany(0, <<"a", "b", "s">>, 800, "Textile", CITY_NORMALIZATION[<<"c", "a", "s", "a">>], NoneInt),
     QACompany(0, <<"a", "b", " ", "S", "A">>, 700, "", NoneName, 0),
     QACompany(0, <<"a", "b">>, NoneInt, NoneStr, <<" ", "a", "b", " ", "c">>, 7),
     QACompany(0, <<" ", "a", " ", " ", "b", "c", "b", " ">>, 950, NoneStr, NoneName, NoneInt)}

\* The tables of n different rows of the pool, identified in table order.
TablesOf(n) ==
    {[k \in 1..n |-> [pick[k] EXCEPT !.id = k]] :
        pick \in {p \in [1..n -> CompanyPool] : \A a, b \in 1..n : a # b => p[a] # p[b]}}

CompanyTables == UNION {TablesOf(n) : n \in 2..MaxCompanies}

QAExtractionResults ==
    {<<>>,
     << <<QAEntity(<<"B">>, "Energy", NoneName),
          QAEntity(Abc \o <<" ", "S", "A">>, "", <<"c", "a", "s", "a">>)>>,
        <<QAEntity(Abc \o <<" ", "s", "a">>, "Energy", NoneName),
          QAEntity(<<"a", "b">>, "Mining", <<"c", "a", "b">>)>> >>}

\* ------------------------------------------------------------ run(), by step
pipeline == <<tables, pc, batch, fetched, results, last, budget, unreliable, writers, validation>>

\* A sweep constructed over one of the stores, in either mode, about to run.
InitQA ==
    /\ InitCommon
    /\ unreliable = FALSE
    /\ extractor = NotCalled
    /\ writers = NoWriters
    /\ validation = NoPayload
    /\ qa \in {QualityAssurance(comps, res, commit) :
                  comps \in CompanyTables, res \in QAExtractionResults, commit \in BOOLEAN}

\* duplicates = self.find_duplicates()
FindDuplicates ==
    /\ qa.pc = "find_duplicates"
    /\ qa' = [qa EXCEPT !.duplicates = find_duplicates(qa.companies),
                        !.pc = IF find_duplicates(qa.companies) # <<>>
                               THEN "merge_duplicates" ELSE "fill_nulls"]
    /\ UNCHANGED <<pipeline, extractor>>

\* if duplicates: self.merge_duplicates(duplicates)
MergeDuplicates ==
    /\ qa.pc = "merge_duplicates"
    /\ qa' = [merge_duplicates(qa, qa.duplicates) EXCEPT !.pc = "fill_nulls"]
    /\ UNCHANGED <<pipeline, extractor>>

\* self.fill_nulls()
FillNulls ==
    /\ qa.pc = "fill_nulls"
    /\ qa' = [fill_nulls(qa) EXCEPT !.pc = "normalize_names"]
    /\ UNCHANGED <<pipeline, extractor>>

\* self.normalize_names()
NormalizeNames ==
    /\ qa.pc = "normalize_names"
    /\ qa' = [normalize_names(qa) EXCEPT !.pc = "generate_report"]
    /\ UNCHANGED <<pipeline, extractor>>

\* report = self.generate_report()
GenerateReport ==
    /\ qa.pc = "generate_report"
    /\ qa' = [generate_report(qa) EXCEPT !.pc = "done"]
    /\ UNCHANGED <<pipeline, extractor>>

NextQA ==
    \/ FindDuplicates
    \/ MergeDuplicates
    \/ FillNulls
    \/ NormalizeNames
    \/ GenerateReport

SpecQA == InitQA /\ [][NextQA]_vars

\* find_duplicates() called again on the store the first merge left
FindDuplicatesAgain ==
    /\ qa.pc = "fill_nulls"
    /\ qa' = [qa EXCEPT !.duplicates = find_duplicates(qa.companies),
                        !.pc = "merge_duplicates again"]
    /\ UNCHANGED <<pipeline, extractor>>

\* merge_duplicates(duplicates) called with what the second search returned
MergeDuplicatesAgain ==
    /\ qa.pc = "merge_duplicates again"
    /\ qa' = [merge_duplicates(qa, qa.duplicates) EXCEPT !.pc = "merged again"]
    /\ UNCHANGED <<pipeline, extractor>>

NextQATwice ==
    \/ FindDuplicates
    \/ MergeDuplicates
    \/ FindDuplicatesAgain
    \/ MergeDuplicatesAgain

\* The search and the merge, and then both once more.
SpecQATwice == InitQA /\ [][NextQATwice]_vars

\* ============================================================ the extractor
\* ------------------------------------------------------- program constants
MAX_RETRIES == 3
RETRY_BACKOFF_BASE == 2
MAX_CHARS == 12000

\* An article_text by its length before and after str.strip().
Text(raw, stripped) == [raw |-> raw, stripped |-> stripped]

\* extract_company_data(article_text, api_key=api_key, max_retries=max_retries)
\* entered, with OPENAI_API_KEY of the environment being env_key
Called(article_text, api_key, env_key, max_retries) ==
    [pc |-> "called", article_text |-> article_text, api_key |-> api_key, env_key |-> env_key,
     max_retries |-> max_retries, attempt |-> 0, sent |-> 0, calls |-> <<>>, sleeps |-> <<>>,
     last_exception |-> NoneStr, error |-> NoneStr]

\* if not article_text or not article_text.strip()
EmptyText(article_text) == article_text.raw = 0 \/ article_text.stripped = 0

\* Variant: a text of any length passes.
TooShortMutant(article_text) == FALSE

\* if len(cleaned_text) < 20
TooShort(article_text) == article_text.stripped < 20

\* api_key or os.environ.get("OPENAI_API_KEY")
ResolvedKey(api_key, env_key) == IF TruthyStr(api_key) THEN api_key ELSE env_key

\* cleaned_text[:MAX_CHARS]
Truncated(length) == IF length > MAX_CHARS THEN MAX_CHARS ELSE length

Raise(e, error) == [e EXCEPT !.pc = "raised", !.error = error]

\* range(1, max_retries + 1) has a next attempt, or the loop is left.
EnterAttempt(e, attempt) ==
    IF attempt <= e.max_retries THEN [e EXCEPT !.pc = "loop", !.attempt = attempt]
    ELSE [e EXCEPT !.pc = "after_loop"]

\* Input validation and the API client, up to the first attempt.
Validated(e) ==
    IF EmptyText(e.article_text) \/ TooShort(e.article_text) THEN Raise(e, "ValueError")
    ELSE IF ~TruthyStr(ResolvedKey(e.api_key, e.env_key)) THEN Raise(e, "RuntimeError")
    ELSE EnterAttempt([e EXCEPT !.sent = Truncated(e.article_text.stripped)], 1)

\* What one client.chat.completions.create and the reading of its response do:
\* a parsed and validated result, or one of the exceptions.
Outcomes ==
    {"ok", "JSONDecodeError", "RateLimitError", "APIConnectionError",
     "APIError 4xx", "APIError 5xx", "Exception"}

RECURSIVE Pow(_, _)
Pow(b, n) == IF n = 0 THEN 1 ELSE b * Pow(b, n - 1)

\* Variant: the wait grows linearly.
WaitTimeMutant(attempt) == RETRY_BACKOFF_BASE * attempt

\* wait_time = RETRY_BACKOFF_BASE ** attempt
WaitTime(attempt) == Pow(RETRY_BACKOFF_BASE, attempt)

Sleep(e, wait_time) == [e EXCEPT !.sleeps = Append(@, wait_time)]

\* if hasattr(e, "status_code") and 400 <= e.status_code < 500 and e.status_code != 429: break
Breaks(outcome) == outcome = "APIError 4xx"

\* The except clauses of the loop body, and what follows each.
Handled(e, outcome) ==
    IF outcome = "ok" THEN [e EXCEPT !.pc = "returned"]
    ELSE IF outcome = "Exception" THEN Raise(e, outcome)
    ELSE IF outcome \in {"RateLimitError", "APIConnectionError"}
    THEN EnterAttempt(Sleep([e EXCEPT !.last_exception = outcome], WaitTime(e.attempt)), e.attempt + 1)
    ELSE IF Breaks(outcome) THEN [e EXCEPT !.last_exception = outcome, !.pc = "after_loop"]
    ELSE EnterAttempt([e EXCEPT !.last_exception = outcome], e.attempt + 1)

\* One pass of the loop body: the call, then its handler.
Attempted(e, outcome) == Handled([e EXCEPT !.calls = Append(@, outcome)], outcome)

Texts == {Text(0, 0), Text(4, 0), Text(25, 19), Text(20, 20), Text(12001, 12001)}

Keys == {NoneStr, "", "sk"}

InitExtractor ==
    /\ InitCommon
    /\ unreliable = FALSE
    /\ qa = NotRun
    /\ writers = NoWriters
    /\ validation = NoPayload
    /\ extractor \in {Called(t, k, v, m) : t \in Texts, k \in Keys, v \in Keys, m \in 1..MAX_RETRIES}

Validate ==
    /\ extractor.pc = "called"
    /\ extractor' = Validated(extractor)
    /\ UNCHANGED <<pipeline, qa>>

Attempt ==
    /\ extractor.pc = "loop"
    /\ \E outcome \in Outcomes : extractor' = Attempted(extractor, outcome)
    /\ UNCHANGED <<pipeline, qa>>

\* raise RuntimeError("Extraction failed after ... attempts ...")
RaiseFailed ==
    /\ extractor.pc = "after_loop"
    /\ extractor' = Raise(extractor, "RuntimeError")
    /\ UNCHANGED <<pipeline, qa>>

NextExtractor ==
    \/ Validate
    \/ Attempt
    \/ RaiseFailed

SpecExtractor == InitExtractor /\ [][NextExtractor]_vars

\* The call is not suspended for ever: a step that can be taken is taken.
SpecExtractorLive == SpecExtractor /\ WF_vars(NextExtractor)

\* ====================================================== runs side by side
\* ---------------------------------------------------------------- bounds
MaxUpserts == 2

\* The two pipeline runs.
Runs == {1, 2}

\* The names the runs upsert: one company, spelled in three ways.
WriterNames == {<<"A", "b">>, <<" ", "a", "B">>, <<"A", "b", " ", "S", "A">>}

NamedOnly(company_name) == Entity(company_name, "primary_subject", NoneInt, NoneStr, 900, <<>>, NoneStr)

\* The entities one run upserts, in order.
RECURSIVE Queues(_)
Queues(n) ==
    IF n = 0 THEN {<<>>}
    ELSE Queues(n - 1) \cup {<<NamedOnly(name)>> \o q : name \in WriterNames, q \in Queues(n - 1)}

\* A run about to call upsert_company for the head of its queue.
Writer(queue) == [pc |-> "ready", queue |-> queue, existing_id |-> 0]

\* The runs take their upserts one after the other (serial), or each of them
\* steps on its own (not serial).
InitWriters ==
    /\ InitCommon
    /\ unreliable = FALSE
    /\ qa = NotRun
    /\ extractor = NotCalled
    /\ validation = NoPayload
    /\ writers \in {[serial |-> serial, run |-> [r \in Runs |-> Writer(q[r])]] :
                       serial \in BOOLEAN, q \in [Runs -> Queues(MaxUpserts) \ {<<>>}]}

\* upsert_company up to the answer of find_matching_company (lines 36-44)
WriterFinds(r) ==
    /\ writers.run[r].pc = "ready"
    /\ writers.run[r].queue # <<>>
    /\ writers.serial => \A o \in Runs : writers.run[o].pc = "ready"
    /\ writers' = [writers EXCEPT
                      !.run[r].pc = "matched",
                      !.run[r].existing_id =
                          find_matching_company(companies,
                              Strip(OrEmpty(Head(writers.run[r].queue).company_name)))]
    /\ UNCHANGED <<tables, pc, batch, fetched, results, last, budget, unreliable, qa, extractor, validation>>

\* upsert_company from the answer on (lines 46-118): the update of the company
\* found, or the insert of a new one
WriterWrites(r) ==
    /\ writers.run[r].pc = "matched"
    /\ Store(UpsertMatched(DB, Head(writers.run[r].queue),
                           Strip(OrEmpty(Head(writers.run[r].queue).company_name)),
                           writers.run[r].existing_id, r,
                           Head(writers.run[r].queue).confidence_score, {}, 0).db)
    /\ writers' = [writers EXCEPT !.run[r].pc = "ready", !.run[r].queue = Tail(@)]
    /\ UNCHANGED <<pc, batch, fetched, results, last, budget, unreliable, qa, extractor, validation>>

Find == \E r \in Runs : WriterFinds(r)

Write == \E r \in Runs : WriterWrites(r)

NextWriters ==
    \/ Find
    \/ Write

SpecWriters == InitWriters /\ [][NextWriters]_vars

\* ============================================================== validation
\* _validate_entity of extract_company_data.py on the values json.loads can
\* put into a payload.  A value is [kind, num, text]: num holds a number in
\* thousandths, text the characters of a string.
Value(kind, num, text) == [kind |-> kind, num |-> num, text |-> text]

\* The key is absent from the payload.
Missing == Value("missing", 0, "")

\* null
PyNone == Value("None", 0, "")

\* a finite number
Num(n) == Value("number", n, "")

\* true, false
Bool(b) == Value("bool", IF b THEN 1000 ELSE 0, "")

\* NaN
NaN == Value("nan", 0, "")

\* 1e999, which json.loads reads as float('inf')
Inf == Value("inf", 0, "")

\* an integer literal beyond the range of float
HugeInt == Value("int beyond float", 0, "")

\* a string
Str(text) == Value("str", 0, text)

\* an array
List == Value("list", 0, "")

VALID_EVENT_TYPES ==
    {Str(t) : t \in {"new_factory", "partnership", "investment", "acquisition",
                     "export_milestone", "expansion", "hiring", "product_launch",
                     "certification", "other"}}

\* data.get(key, default)
Get(data, key, default) == IF data[key] = Missing THEN default ELSE data[key]

\* Lines 125-147.
Defaults(data) ==
    [event_type |-> Get(data, "event_type", Str("other")),
     confidence_score |-> Get(data, "confidence_score", Num(500)),
     investment_amount_mad |-> Get(data, "investment_amount_mad", PyNone),
     employee_count |-> Get(data, "employee_count", PyNone),
     revenue_mad |-> Get(data, "revenue_mad", PyNone),
     mention_type |-> Get(data, "mention_type", Str("mentioned"))]

\* The values < and > are defined on.
Ordered(x) == x.kind \in {"number", "bool", "nan", "inf", "int beyond float"}

Rank(x) == IF x.kind = "inf" THEN 2 ELSE IF x.kind = "int beyond float" THEN 1 ELSE 0

\* a < b of two ordered values; every comparison with NaN is false
Less(a, b) ==
    /\ a.kind # "nan"
    /\ b.kind # "nan"
    /\ \/ Rank(a) < Rank(b)
       \/ Rank(a) = 0 /\ Rank(b) = 0 /\ a.num < b.num

\* What a call returned, or the exception it raised.
Returned(value) == [raised |-> "no", value |-> value]
Raised(exception) == [raised |-> exception, value |-> PyNone]

\* min(a, b): a unless b < a
PyMin(a, b) ==
    IF ~(Ordered(a) /\ Ordered(b)) THEN Raised("TypeError")
    ELSE Returned(IF Less(b, a) THEN b ELSE a)

\* max(a, b): a unless b > a
PyMax(a, b) ==
    IF ~(Ordered(a) /\ Ordered(b)) THEN Raised("TypeError")
    ELSE Returned(IF Less(a, b) THEN b ELSE a)

\* The strings of the model float() parses, and their values.
Parsed(text) == IF text = "0.9" THEN 900 ELSE IF text = "12" THEN 12000 ELSE -1

\* float(x)
PyFloat(x) ==
    IF x.kind \in {"number", "bool"} THEN Returned(Num(x.num))
    ELSE IF x.kind \in {"nan", "inf"} THEN Returned(x)
    ELSE IF x.kind = "int beyond float" THEN Raised("OverflowError")
    ELSE IF x.kind = "str"
    THEN IF Parsed(x.text) >= 0 THEN Returned(Num(Parsed(x.text))) ELSE Raised("ValueError")
    ELSE Raised("TypeError")

\* int(x): a float is truncated, a string must be an integer literal
PyInt(x) ==
    IF x.kind \in {"number", "bool"}
    THEN Returned(Num(IF x.num >= 0 THEN (x.num \div 1000) * 1000
                      ELSE 0 - (((0 - x.num) \div 1000) * 1000)))
    ELSE IF x.kind = "int beyond float" THEN Returned(x)
    ELSE IF x.kind = "nan" THEN Raised("ValueError")
    ELSE IF x.kind = "inf" THEN Raised("OverflowError")
    ELSE IF x.kind = "str"
    THEN IF Parsed(x.text) >= 0 /\ Parsed(x.text) % 1000 = 0
         THEN Returned(Num(Parsed(x.text))) ELSE Raised("ValueError")
    ELSE Raised("TypeError")

\* except (TypeError, ValueError)
Caught(returned) == returned.raised \in {"TypeError", "ValueError"}

\* round(x, 2) of a float, to the nearest hundredth and to the even one of two
Round2(x) ==
    IF x.kind # "number" THEN x
    ELSE IF x.num % 10 < 5 \/ (x.num % 10 = 5 /\ (x.num \div 10) % 2 = 0)
    THEN Num((x.num \div 10) * 10)
    ELSE Num((x.num \div 10) * 10 + 10)

\* _validate_entity so far, or the exception that left it.
Valid(validated) == [raised |-> "no", validated |-> validated]
Escaped(exception, validated) == [raised |-> exception, validated |-> validated]

\* try: validated[field] = value  except (TypeError, ValueError): validated[field] = default
TryAssign(validated, field, returned, default) ==
    IF returned.raised = "no" THEN Valid([validated EXCEPT ![field] = returned.value])
    ELSE IF Caught(returned) THEN Valid([validated EXCEPT ![field] = default])
    ELSE Escaped(returned.raised, validated)

\* Lines 152-153, least being what min(confidence_score, 0.6) did.
WithOther(validated, least) ==
    IF least.raised = "no"
    THEN Valid([validated EXCEPT !.event_type = Str("other"), !.confidence_score = least.value])
    ELSE Escaped(least.raised, [validated EXCEPT !.event_type = Str("other")])

\* Lines 149-153.
EventType(validated) ==
    IF validated.event_type \in VALID_EVENT_TYPES THEN Valid(validated)
    ELSE WithOther(validated, PyMin(validated.confidence_score, Num(600)))

\* max(0.0, min(1.0, x)) of a float
Clamp(x) == PyMax(Num(0), PyMin(Num(1000), x).value)

\* max(0.0, min(1.0, float(x)))
Clamped(floated) == IF floated.raised = "no" THEN Clamp(floated.value) ELSE floated

\* Lines 163-167.
ClampConfidence(so_far) ==
    IF so_far.raised # "no" THEN so_far
    ELSE TryAssign(so_far.validated, "confidence_score",
                   Clamped(PyFloat(so_far.validated.confidence_score)), Num(500))

\* round(float(x), 2)
Rounded(floated) == IF floated.raised = "no" THEN Returned(Round2(floated.value)) ELSE floated

\* Lines 169-174 for one of the two fields.
NumericField(so_far, field) ==
    IF so_far.raised # "no" \/ so_far.validated[field] = PyNone THEN so_far
    ELSE TryAssign(so_far.validated, field, Rounded(PyFloat(so_far.validated[field])), PyNone)

\* Lines 176-180.
EmployeeCount(so_far) ==
    IF so_far.raised # "no" \/ so_far.validated.employee_count = PyNone THEN so_far
    ELSE TryAssign(so_far.validated, "employee_count",
                   PyInt(so_far.validated.employee_count), PyNone)

\* Lines 183-185.
MentionType(so_far) ==
    IF so_far.raised # "no" THEN so_far
    ELSE Valid([so_far.validated EXCEPT
                   !.mention_type = IF @ \in {Str("primary_subject"), Str("mentioned"), Str("quoted")}
                                    THEN @ ELSE Str("mentioned")])

\* _validate_entity.  The fields that are only copied (company_name, sector,
\* city, ...) and management_mentions, whose filter raises on no value, are
\* left out.
validate_entity(data) ==
    MentionType(EmployeeCount(NumericField(NumericField(
        ClampConfidence(EventType(Defaults(data))),
        "investment_amount_mad"), "revenue_mad")))

\* --------------------------------------------------------------- payloads
EventTypes == {Missing, PyNone, Str("hiring"), Str("bogus"), List}

ConfidenceScores ==
    {Missing, PyNone, Num(-300), Num(500), Num(600), Num(900), Num(1500), Bool(TRUE),
     Str("0.9"), Str("high"), List, NaN, Inf, HugeInt}

Amounts == {Missing, Num(2505), HugeInt}

Revenues == {Missing, Str("12")}

EmployeeCounts == {Missing, Num(12000), Num(12700), Str("12"), Str("0.9"), Inf}

MentionTypes == {Missing, Str("primary_subject"), Str("cited")}

Payloads ==
    [event_type : EventTypes, confidence_score : ConfidenceScores,
     investment_amount_mad : Amounts, employee_count : EmployeeCounts,
     revenue_mad : Revenues, mention_type : MentionTypes]

\* One entity of a parsed response is about to be validated.
InitValidation ==
    /\ InitCommon
    /\ unreliable = FALSE
    /\ qa = NotRun
    /\ extractor = NotCalled
    /\ writers = NoWriters
    /\ validation \in {[pc |-> "parsed", data |-> data] : data \in Payloads}

\* _validate_extracted_data validates the entity (line 234).
ValidateEntity ==
    /\ validation.pc = "parsed"
    /\ validation' = [pc |-> IF validate_entity(validation.data).raised = "no"
                             THEN "validated" ELSE "raised",
                      data |-> validation.data,
                      result |-> validate_entity(validation.data)]
    /\ UNCHANGED <<tables, pc, batch, fetched, results, last, budget, unreliable, qa, extractor, writers>>

NextValidation == ValidateEntity

SpecValidation == InitValidation /\ [][NextValidation]_vars

\* ------------------------------------------------------------- properties
\* Which branch of the router the calls logged for an article belong to.
TookAutoAccept(calls) ==
    /\ calls # <<>>
    /\ calls[Len(calls)] = StatusCall("extracted")
    /\ \A k \in 1..Len(calls) : calls[k].op # "add_to_review_queue"

TookReview(calls) == calls # <<>> /\ calls[1].op = "add_to_review_queue"

TookDiscard(calls) == calls = <<StatusCall("skipped")>>

RoutedBy(c, calls) ==
    /\ TookAutoAccept(calls) <=> c >= 850
    /\ TookReview(calls) <=> (c >= 650 /\ c < 850)
    /\ TookDiscard(calls) <=> c < 650
    /\ ~(TookAutoAccept(calls) /\ TookReview(calls))
    /\ ~(TookAutoAccept(calls) /\ TookDiscard(calls))
    /\ ~(TookReview(calls) /\ TookDiscard(calls))

\* C1: every extraction that was persisted (a row was added to
\* extraction_results) is routed to auto-accept iff c >= 0.85, to the review
\* queue iff 0.65 <= c < 0.85 and to discard iff c < 0.65, and to exactly one
\* of the three, whatever store errors occur afterwards.
C1_RoutingByThreshold ==
    [][(last'.op = "process_article" /\ Len(extraction_results') > Len(extraction_results))
         => RoutedBy(last'.extraction.overall_confidence, last'.calls)]_vars

\* An extraction of confidence exactly 0.65 went to the review queue.
C1_Witness ==
    /\ last.op = "process_article"
    /\ last.extraction.overall_confidence = 650
    /\ TookReview(last.calls)
    /\ extraction_results # <<>>

\* The step processed an article for which the extractor returned a result.
Extracted == last'.op = "process_article" /\ ~last'.extraction.raised

NoGraphWrite ==
    /\ companies' = companies
    /\ events' = events
    /\ company_relationships' = company_relationships
    /\ company_people' = company_people
    /\ company_articles' = company_articles

StatusBecomes(status) == articles'[last'.article_id].processing_status = status

\* C2 as stated: an extraction of confidence below 0.65 writes nothing to
\* companies, events, company_relationships, company_people, company_articles
\* or review_queue, and the article becomes skipped.
C2_DiscardWritesNothing ==
    [][(Extracted /\ last'.extraction.overall_confidence < 650)
         => NoGraphWrite /\ review_queue' = review_queue /\ StatusBecomes("skipped")]_vars

\* C2, amended: the same for an extraction that names at least one entity
\* (an empty entity list marks the article failed before routing).
C2_DiscardWritesNothingWithEntities ==
    [][(Extracted /\ last'.extraction.entities # <<>>
          /\ last'.extraction.overall_confidence < 650)
         => NoGraphWrite /\ review_queue' = review_queue /\ StatusBecomes("skipped")]_vars

\* An extraction of confidence 0.45 whose entities have no name was discarded.
C2_Witness ==
    /\ last.op = "process_article"
    /\ last.extraction = Extraction(Nameless, <<>>, 450)
    /\ TookDiscard(last.calls)
    /\ articles[last.article_id].processing_status = "skipped"

\* The review item the step appended holds the raw extraction and is pending.
OneNewPendingItem ==
    /\ Len(review_queue') = Len(review_queue) + 1
    /\ SubSeq(review_queue', 1, Len(review_queue)) = review_queue
    /\ review_queue'[Len(review_queue')].status = "pending"
    /\ review_queue'[Len(review_queue')].article_id = last'.article_id
    /\ review_queue'[Len(review_queue')].extracted_data = last'.extraction
    /\ review_queue'[Len(review_queue')].confidence_score
           = last'.extraction.overall_confidence

NoCompanyEventOrRelationship ==
    /\ companies' = companies
    /\ events' = events
    /\ company_relationships' = company_relationships

\* C3 as stated: an extraction of confidence 0.65 <= c < 0.85 creates one
\* pending review item holding the raw extraction, sets the article to
\* extracted and writes no company, event or relationship row.
C3_ReviewRoute ==
    [][(Extracted /\ last'.extraction.overall_confidence >= 650
          /\ last'.extraction.overall_confidence < 850)
         => OneNewPendingItem /\ StatusBecomes("extracted")
            /\ NoCompanyEventOrRelationship]_vars

\* C3, amended: the same for an extraction that names at least one entity.
C3_ReviewRouteWithEntities ==
    [][(Extracted /\ last'.extraction.entities # <<>>
          /\ last'.extraction.overall_confidence >= 650
          /\ last'.extraction.overall_confidence < 850)
         => OneNewPendingItem /\ StatusBecomes("extracted")
            /\ NoCompanyEventOrRelationship]_vars

\* An extraction of confidence 0.849 is waiting in the review queue and
\* nothing of it is in the graph.
C3_Witness ==
    /\ last.op = "process_article"
    /\ last.extraction = Extraction(OneSubject, TwoPartners, 849)
    /\ review_queue # <<>>
    /\ review_queue[Len(review_queue)].extracted_data = last.extraction
    /\ review_queue[Len(review_queue)].status = "pending"
    /\ articles[last.article_id].processing_status = "extracted"
    /\ companies = <<>>

\* The entity numbers upsert_company was called for, in call order.
UpsertedEntities(calls) ==
    [k \in 1..Len(SelectSeq(calls, LAMBDA c : c.op = "upsert_company")) |->
        SelectSeq(calls, LAMBDA c : c.op = "upsert_company")[k].idx]

\* The numbers of the entities whose name is non-empty after trimming.
NamedEntities(entities) ==
    SelectSeq([i \in 1..Len(entities) |-> i],
              LAMBDA i : Strip(OrEmpty(entities[i].company_name)) # <<>>)

\* The last of the calls numbered in ks.
LastOf(ks) == CHOOSE k \in ks : \A j \in ks : j <= k

\* The map from the trimmed name of every entity whose upsert returned an id
\* to the id its last such upsert returned.
AccumulatedMap(entities, calls) ==
    [n \in {Strip(OrEmpty(entities[calls[k].idx].company_name)) :
              k \in {j \in 1..Len(calls) : calls[j].op = "upsert_company" /\ calls[j].ret # 0}}
       |-> calls[LastOf({k \in 1..Len(calls) :
                           /\ calls[k].op = "upsert_company"
                           /\ calls[k].ret # 0
                           /\ Strip(OrEmpty(entities[calls[k].idx].company_name)) = n})].ret]

\* insert_event is called right after the upsert of a primary subject that
\* returned an id, with that id, and at no other place.
EventsFollowUpserts(entities, calls) ==
    \A k \in 1..Len(calls) :
        /\ calls[k].op = "insert_event"
             => /\ k > 1
                /\ calls[k - 1].op = "upsert_company"
                /\ calls[k - 1].idx = calls[k].idx
                /\ calls[k - 1].ret # 0
                /\ calls[k].arg = calls[k - 1].ret
                /\ entities[calls[k].idx].mention_type = "primary_subject"
        /\ (/\ calls[k].op = "upsert_company"
            /\ calls[k].ret # 0
            /\ entities[calls[k].idx].mention_type = "primary_subject")
             => /\ k < Len(calls)
                /\ calls[k + 1].op = "insert_event"
                /\ calls[k + 1].idx = calls[k].idx

\* insert_event is called for exactly the primary subjects.
EventsForPrimarySubjects(entities, calls) ==
    {calls[k].idx : k \in {j \in 1..Len(calls) : calls[j].op = "insert_event"}}
        = {i \in 1..Len(entities) : entities[i].mention_type = "primary_subject"}

\* insert_relationships is the call before the last, after every upsert and
\* event, and is passed the accumulated map.
RelationshipsOnceAtEnd(entities, calls) ==
    /\ Len(calls) >= 2
    /\ calls[Len(calls) - 1].op = "insert_relationships"
    /\ calls[Len(calls) - 1].map = AccumulatedMap(entities, calls)
    /\ \A k \in 1..(Len(calls) - 2) : calls[k].op \in {"upsert_company", "insert_event"}

NoRelationshipsCall(calls) ==
    \A k \in 1..(Len(calls) - 1) : calls[k].op \in {"upsert_company", "insert_event"}

AutoAcceptSequence(extraction, calls) ==
    /\ UpsertedEntities(calls) = NamedEntities(extraction.entities)
    /\ EventsFollowUpserts(extraction.entities, calls)
    /\ IF extraction.relationships # <<>>
       THEN RelationshipsOnceAtEnd(extraction.entities, calls)
       ELSE NoRelationshipsCall(calls)
    /\ calls[Len(calls)] = StatusCall("extracted")

\* C4 as stated, for an article processed without any store error: one upsert
\* per named entity and no other, insert_event for exactly the primary
\* subjects, insert_relationships once after the upserts with the accumulated
\* map, then the status extracted.
C4_AutoAcceptCalls ==
    (last.op = "process_article" /\ last.faults = {} /\ TookAutoAccept(last.calls))
        => /\ UpsertedEntities(last.calls) = NamedEntities(last.extraction.entities)
           /\ EventsForPrimarySubjects(last.extraction.entities, last.calls)
           /\ RelationshipsOnceAtEnd(last.extraction.entities, last.calls)
           /\ last.calls[Len(last.calls)] = StatusCall("extracted")

\* C4, amended: one upsert per named entity, in order, and no other;
\* insert_event right after the upsert of every primary subject whose upsert
\* returned an id, and for no other entity; insert_relationships once, after
\* all of these and with the accumulated map, exactly when the extraction
\* lists a relationship; the status extracted is set last.
C4_AutoAcceptCallsNamedOnly ==
    (last.op = "process_article" /\ TookAutoAccept(last.calls))
        => AutoAcceptSequence(last.extraction, last.calls)

\* Two named entities were upserted, the primary subject among them got its
\* event, and insert_relationships was passed the map of both.
C4_Witness ==
    /\ last.op = "process_article"
    /\ last.extraction = Extraction(Respelled, SelfEdge, 920)
    /\ TookAutoAccept(last.calls)
    /\ Len(last.calls) = 5
    /\ last.calls[4].map = AccumulatedMap(Respelled, last.calls)
    /\ DOMAIN last.calls[4].map = {<<"A">>, <<"a">>}

\* Scenario 1: confidence 0.92, one primary subject, two relationships from
\* it to two partner companies.
Scenario1 == Extraction(OneSubject, TwoPartners, 920)

\* No stored company name contains one of the scenario's three names.
HoldsNoneOf(comps, names) ==
    \A k \in 1..Len(comps) : \A n \in names : ~ILike(comps[k].company_name, n)

Scenario1Step ==
    /\ last'.op = "process_article"
    /\ last'.extraction = Scenario1
    /\ HoldsNoneOf(companies, {<<"a">>, <<"b">>, <<"c">>})

\* C5 as stated: scenario 1 on a store that holds none of the named companies
\* adds one company row, one event row and two company_relationships rows,
\* and the article becomes extracted.
C5_Scenario1 ==
    [][Scenario1Step
         => /\ Len(companies') = Len(companies) + 1
            /\ Len(events') = Len(events) + 1
            /\ Len(company_relationships') = Len(company_relationships) + 2
            /\ StatusBecomes("extracted")]_vars

\* C5, amended: scenario 1 adds one company row and one event row and no
\* company_relationships row (the partners are no entities of the extraction
\* and no stored companies, so neither edge resolves), and the article
\* becomes extracted.
C5_Scenario1NoRelationships ==
    [][Scenario1Step
         => /\ Len(companies') = Len(companies) + 1
            /\ Len(events') = Len(events) + 1
            /\ company_relationships' = company_relationships
            /\ StatusBecomes("extracted")]_vars

\* Scenario 1 was processed on an empty store.
C5_Witness ==
    /\ last.op = "process_article"
    /\ last.extraction = Scenario1
    /\ Len(companies) = 1
    /\ Len(events) = 1
    /\ company_relationships = <<>>
    /\ articles[last.article_id].processing_status = "extracted"

\* The upsert_company calls made for an article, in call order.
Upserts(calls) == SelectSeq(calls, LAMBDA c : c.op = "upsert_company")

\* Two calls with identical entity fields and confidence (the article is the
\* same), the first of which returned an id.
SameInput(entities, first, second) ==
    /\ entities[first.idx] = entities[second.idx]
    /\ first.arg = second.arg
    /\ first.ret # 0

\* The second call found the row of the first, returned its id and inserted
\* nothing; the store holds one row of that id and one of that name.
OneRowSameId(comps, first, second) ==
    /\ second.ret = first.ret
    /\ second.matched = first.ret
    /\ second.before = first.after
    /\ Cardinality({k \in 1..Len(comps) : comps[k].company_id = first.ret}) = 1
    /\ Cardinality({k \in 1..Len(comps) :
                      Lower(comps[k].company_name) = Lower(first.after.company_name)}) = 1

UnchangedButStamp(before, after) ==
    /\ after.company_id = before.company_id
    /\ after.company_name = before.company_name
    /\ after.headquarters_city = before.headquarters_city
    /\ after.employee_count = before.employee_count
    /\ after.data_confidence = before.data_confidence

\* C6 as stated: the second of two identical upsert_company calls in sequence
\* returns the id of the first, leaves one row for the name and changes no
\* field that was populated after the first call.
C6_IdempotentUpsert ==
    last.op = "process_article" =>
        \A k \in 1..(Len(Upserts(last.calls)) - 1) :
            SameInput(last.extraction.entities, Upserts(last.calls)[k],
                      Upserts(last.calls)[k + 1])
              => /\ OneRowSameId(companies, Upserts(last.calls)[k], Upserts(last.calls)[k + 1])
                 /\ Upserts(last.calls)[k + 1].after = Upserts(last.calls)[k + 1].before

\* C6, amended: the second call returns the id of the first, leaves one row
\* for the name and changes no field other than updated_at, which it sets to
\* the time of the second call.
C6_IdempotentUpsertButStamp ==
    last.op = "process_article" =>
        \A k \in 1..(Len(Upserts(last.calls)) - 1) :
            SameInput(last.extraction.entities, Upserts(last.calls)[k],
                      Upserts(last.calls)[k + 1])
              => /\ OneRowSameId(companies, Upserts(last.calls)[k], Upserts(last.calls)[k + 1])
                 /\ UnchangedButStamp(Upserts(last.calls)[k + 1].before,
                                      Upserts(last.calls)[k + 1].after)
                 /\ Upserts(last.calls)[k + 1].after.updated_at
                        > Upserts(last.calls)[k + 1].before.updated_at

\* The same entity was upserted twice for one article.
C6_Witness ==
    /\ last.op = "process_article"
    /\ last.extraction.entities = Twice
    /\ Len(Upserts(last.calls)) = 2
    /\ Upserts(last.calls)[2].ret = Upserts(last.calls)[1].ret
    /\ Upserts(last.calls)[2].ret # 0

NonNullKept(before, after) ==
    /\ after.company_id = before.company_id
    /\ before.company_name # NoneName => after.company_name = before.company_name
    /\ before.headquarters_city # NoneStr
         => after.headquarters_city = before.headquarters_city
    /\ before.employee_count # NoneInt => after.employee_count = before.employee_count

\* C7: an upsert that matched a stored company leaves every field that held
\* a non-null value (an employee_count of 0 included) as it was, apart from
\* data_confidence and updated_at.
C7_PartialFill ==
    last.op = "process_article" =>
        \A k \in 1..Len(last.calls) :
            (/\ last.calls[k].op = "upsert_company"
             /\ last.calls[k].matched # 0
             /\ last.calls[k].ret # 0)
              => NonNullKept(last.calls[k].before, last.calls[k].after)

\* C8: company_relationships holds no two rows of one (source, target, type)
\* triple and no row from a company to itself.
C8_RelationshipsUnique ==
    \A i \in 1..Len(company_relationships) :
        /\ company_relationships[i].source_company_id
               # company_relationships[i].target_company_id
        /\ \A j \in 1..Len(company_relationships) :
               (/\ company_relationships[j].source_company_id
                      = company_relationships[i].source_company_id
                /\ company_relationships[j].target_company_id
                      = company_relationships[i].target_company_id
                /\ company_relationships[j].relationship_type
                      = company_relationships[i].relationship_type)
                 => i = j

\* One call listed the same edge twice and its reverse: two rows were inserted.
C8_Witness ==
    /\ last.op = "process_article"
    /\ last.extraction.relationships = SameEdgeTwice
    /\ \E k \in 1..Len(last.calls) :
           last.calls[k].op = "insert_relationships" /\ last.calls[k].ret = 2
    /\ Len(company_relationships) >= 2

\* The change of one article's status in a step, as the claim lists them.
ListedTransition(from, to) ==
    \/ from = "pending" /\ to \in {"extracted", "failed", "skipped"}
    \/ from = "extracted" /\ to = "reviewed"
    \/ to = "pending" /\ last'.op = "reprocess"

\* The same with what approve_item and reject_item do to the article of the
\* item they are given, whatever its status.
ActualTransition(a, from, to) ==
    \/ /\ last'.op = "process_article"
       /\ a = last'.article_id
       /\ from = "pending"
       /\ to \in {"extracted", "failed", "skipped"}
    \/ /\ last'.op \in {"approve_item", "approve_item_edited"}
       /\ a = last'.article_id
       /\ to = "reviewed"
    \/ /\ last'.op = "reject_item"
       /\ a = last'.article_id
       /\ to = "skipped"
    \/ to = "pending" /\ last'.op = "reprocess"

SameGraphWrites(db) ==
    /\ companies' = db.companies
    /\ events' = db.events
    /\ company_relationships' = db.company_relationships

\* What the auto-accept route writes for the payload of a review item.
AutoAcceptOf(item) ==
    AutoApprove(DB, ZeroResults, item.extracted_data, item.article_id, item.article_id,
                item.confidence_score, {}).db

\* C10: approving a pending item the orchestrator created writes the
\* companies, events and relationships the auto-accept route would write for
\* its payload, and the item is no longer pending.
C10_ApproveWritesGraph ==
    [][(/\ last'.op \in {"approve_item", "approve_review"}
        /\ ReviewItemById(review_queue, last'.review_id).status = "pending")
         => /\ ReviewItemById(review_queue', last'.review_id).status # "pending"
            /\ SameGraphWrites(AutoAcceptOf(ReviewItemById(review_queue, last'.review_id)))]_vars

\* C11: whenever reject_item or reject_review sets a review item to rejected,
\* the article of that item has the status skipped afterwards.
C11_RejectionSkipsArticle ==
    [][(/\ last'.op \in {"reject_item", "reject_review"}
        /\ ReviewItemById(review_queue', last'.review_id).status = "rejected")
         => articles'[last'.article_id].processing_status = "skipped"]_vars

\* The articles of the running batch that the loop has been through.
Done == SubSeq(fetched, 1, Len(fetched) - Len(batch))

\* C12: in a run (the store answering every operation) the loop goes through
\* the fetched articles in order whatever happens to each; an article on
\* which the extractor raised is failed with a reason; every article the loop
\* has been through is not pending, so when the run ends none of the fetched
\* articles is.
C12_BatchNeverHalts ==
    /\ pc = "running" =>
          /\ Len(batch) <= Len(fetched)
          /\ batch = SubSeq(fetched, Len(fetched) - Len(batch) + 1, Len(fetched))
          /\ \A k \in 1..Len(Done) : articles[Done[k]].processing_status # "pending"
    /\ (last.op = "process_article" /\ last.extraction.raised) =>
          /\ articles[last.article_id].processing_status = "failed"
          /\ TruthyStr(articles[last.article_id].error_message)
    /\ last.op = "end_run" =>
          /\ batch = <<>>
          /\ \A k \in 1..Len(fetched) : articles[fetched[k]].processing_status # "pending"

\* A run of two articles ended: the extractor raised on the first, and the
\* second was processed after it.
C12_Witness ==
    /\ last.op = "end_run"
    /\ fetched = <<1, 2>>
    /\ articles[1].processing_status = "failed"
    /\ articles[1].error_message = "Processing error"
    /\ articles[2].processing_status \in {"extracted", "skipped"}

\* C13: every article on which the extractor returned gets one pipeline_costs
\* row with the token counts of that call.
C13_CostAlwaysLogged ==
    [][Extracted
         => /\ Len(pipeline_costs') = Len(pipeline_costs) + 1
            /\ pipeline_costs'[Len(pipeline_costs')].article_id = last'.article_id
            /\ pipeline_costs'[Len(pipeline_costs')].input_tokens
                   = last'.extraction.input_tokens
            /\ pipeline_costs'[Len(pipeline_costs')].output_tokens
                   = last'.extraction.output_tokens]_vars

QAActions == {"merge", "null_fill", "name_normalize"}

\* The operation at k is the log row of an action on that company with those fields.
LogsAction(op, id, fields) ==
    /\ op.op = "insert"
    /\ op.table = "data_quality_log"
    /\ op.action_type \in QAActions
    /\ op.id = id
    /\ op.data = fields

LogFirst(ops) ==
    \A k \in 1..Len(ops) :
        ops[k].table = "companies" =>
            /\ ops[k].op = "update"
            /\ k > 1
            /\ LogsAction(ops[k - 1], ops[k].id, DOMAIN ops[k].data)

MergeRows(log) == SelectSeq(log, LAMBDA row : row.action_type = "merge")

AppliedAfterLog(ops, action_type) ==
    \E k \in 2..Len(ops) : ops[k].table = "companies" /\ ops[k - 1].action_type = action_type

RECURSIVE EditDistance(_, _)
EditDistance(a, b) ==
    IF a = <<>> THEN Len(b)
    ELSE IF b = <<>> THEN Len(a)
    ELSE IF Head(a) = Head(b) THEN EditDistance(Tail(a), Tail(b))
    ELSE 1 + Min3(EditDistance(Tail(a), b), EditDistance(a, Tail(b)), EditDistance(Tail(a), Tail(b)))

NearNames(n1, n2, dist) ==
    /\ LenDiff(n1, n2) <= 2
    /\ dist <= 2
    /\ dist < (IF Len(n1) > Len(n2) THEN Len(n1) ELSE Len(n2))

\* How often the pair of these two rows is among the flagged pairs.
TimesFlagged(duplicates, id1, id2) ==
    Cardinality({k \in 1..Len(duplicates) : {duplicates[k].c1.id, duplicates[k].c2.id} = {id1, id2}})

FlagsExactly(comps, duplicates, n1, n2, i, j) ==
    TimesFlagged(duplicates, comps[i].id, comps[j].id) = IF NearNames(n1, n2, EditDistance(n1, n2)) THEN 1 ELSE 0

FlagsExactlyLong(comps, duplicates, n1, n2, i, j) ==
    TimesFlagged(duplicates, comps[i].id, comps[j].id)
        = IF Len(n1) >= 3 /\ Len(n2) >= 3 /\ NearNames(n1, n2, EditDistance(n1, n2)) THEN 1 ELSE 0

\* C15: find_duplicates flags a pair of stored companies exactly when their
\* normalized names differ in length by at most 2 and are at edit distance at
\* most 2 and below the longer length, whatever the length of the names.
C15_FlaggedIff ==
    [][qa.pc = "find_duplicates" =>
           \A i, j \in 1..Len(qa.companies) :
               i < j => FlagsExactly(qa.companies, qa'.duplicates,
                                     normalize_company_name(qa.companies[i].company_name),
                                     normalize_company_name(qa.companies[j].company_name), i, j)]_vars

\* C15 for normalized names of at least 3 characters: find_duplicates flags a
\* pair exactly when both normalized names have 3 characters or more, differ in
\* length by at most 2 and are at edit distance at most 2; shorter names are
\* never flagged, identical or not.
C15_FlaggedIffLong ==
    [][qa.pc = "find_duplicates" =>
           \A i, j \in 1..Len(qa.companies) :
               i < j => FlagsExactlyLong(qa.companies, qa'.duplicates,
                                         normalize_company_name(qa.companies[i].company_name),
                                         normalize_company_name(qa.companies[j].company_name), i, j)]_vars

\* Two rows spelled differently with one normalized name are flagged at distance 0.
C15_Witness ==
    /\ qa.pc = "merge_duplicates"
    /\ \E k \in 1..Len(qa.duplicates) :
          /\ qa.duplicates[k].dist = 0
          /\ qa.duplicates[k].c1.company_name # qa.duplicates[k].c2.company_name
          /\ normalize_company_name(qa.duplicates[k].c1.company_name) = Abc

\* The row the merge policy keeps: the more confident one, and of two equally
\* confident rows the one with more non-null fields.
KeptByPolicy(c1, c2, keeper_id) ==
    /\ ConfOrZero(c1) > ConfOrZero(c2) => keeper_id = c1.id
    /\ ConfOrZero(c2) > ConfOrZero(c1) => keeper_id = c2.id
    /\ (ConfOrZero(c1) = ConfOrZero(c2) /\ NonNullFields(c1) > NonNullFields(c2)) => keeper_id = c1.id
    /\ (ConfOrZero(c1) = ConfOrZero(c2) /\ NonNullFields(c2) > NonNullFields(c1)) => keeper_id = c2.id

\* C16: for every pair merge_duplicates handles, the keeper named in the merge
\* row is the row of strictly higher data_confidence, and of two rows of equal
\* confidence the one with more non-null fields, whichever is listed first.
C16_KeeperByPolicy ==
    [][qa.pc = "merge_duplicates" =>
           \A k \in 1..Len(qa.duplicates) :
               KeptByPolicy(qa.duplicates[k].c1, qa.duplicates[k].c2,
                            MergeRows(qa'.data_quality_log)[k].entity_id)]_vars

WritesOnlyNull(op) == \A f \in DOMAIN op.data : op.before[f] = NoneOf(f)

LoserUntouched(before, after, id) ==
    /\ Len(after) = Len(before)
    /\ after[RowIndex(before, id)] = before[RowIndex(before, id)]

\* C17: in a commit-mode pass of merge_duplicates every update of companies
\* writes only fields that are null in the store at that moment, and the row of
\* every loser is the same after the pass as before it.
C17_MergeFillsOnlyNull ==
    [][(qa.pc = "merge_duplicates" /\ qa.commit) =>
           /\ \A k \in 1..Len(qa'.ops) :
                  qa'.ops[k].table = "companies" => WritesOnlyNull(qa'.ops[k])
           /\ \A k \in 1..Len(qa.duplicates) :
                  LoserUntouched(qa.companies, qa'.companies, Loser(qa.duplicates[k]).id)]_vars

\* The waits owed for the calls from k on: 2, 4, 8 seconds after a rate limit
\* or a connection error at the first, second, third attempt.
RECURSIVE WaitsFrom(_, _)
WaitsFrom(calls, k) ==
    IF k > Len(calls) THEN <<>>
    ELSE IF calls[k] \in {"RateLimitError", "APIConnectionError"}
    THEN <<(<<2, 4, 8>>)[k]>> \o WaitsFrom(calls, k + 1)
    ELSE WaitsFrom(calls, k + 1)

Ended(e) == e.pc \in {"returned", "raised"}

\* C18: extract_company_data ends; it makes at most max_retries (at most 3)
\* LLM calls, waits 2^attempt seconds after every rate-limit or connection
\* error, returns only the result of a call that succeeded, and raises when no
\* call did.
C18_BoundedRetries ==
    /\ <>Ended(extractor)
    /\ [](/\ Len(extractor.calls) <= extractor.max_retries
          /\ extractor.max_retries <= 3
          /\ extractor.sleeps = WaitsFrom(extractor.calls, 1)
          /\ extractor.pc = "returned" => extractor.calls[Len(extractor.calls)] = "ok"
          /\ (Ended(extractor) /\ \A k \in 1..Len(extractor.calls) : extractor.calls[k] # "ok")
                 => extractor.pc = "raised" /\ extractor.error # NoneStr)

C18_Witness ==
    /\ extractor.pc = "raised"
    /\ extractor.error = "RuntimeError"
    /\ extractor.calls = <<"RateLimitError", "APIConnectionError", "RateLimitError">>
    /\ extractor.sleeps = <<2, 4, 8>>

\* C19: a call that fails with a 4xx API error other than 429, or whose
\* response is not parseable JSON, is the last call of extract_company_data,
\* which then raises.
C19_PermanentErrorNotRetried ==
    \A k \in 1..Len(extractor.calls) :
        extractor.calls[k] \in {"APIError 4xx", "JSONDecodeError"} =>
            /\ k = Len(extractor.calls)
            /\ extractor.pc \in {"after_loop", "raised"}

\* C20: on a text that is empty, blank or shorter than 20 characters, or with
\* no API key in the argument or the environment, extract_company_data raises
\* without having made an LLM call.
C20_RejectedBeforeAnyCall ==
    (/\ extractor.pc # "called"
     /\ \/ extractor.article_text.stripped < 20
        \/ (extractor.api_key \in {NoneStr, ""} /\ extractor.env_key \in {NoneStr, ""}))
        => /\ extractor.pc = "raised"
           /\ extractor.calls = <<>>
           /\ extractor.error \in {"ValueError", "RuntimeError"}

C20_Witness ==
    /\ extractor.pc = "raised"
    /\ extractor.calls = <<>>
    /\ extractor.error = "RuntimeError"
    /\ extractor.article_text = Text(20, 20)
    /\ extractor.api_key = NoneStr
    /\ extractor.env_key = ""

\* Two rows of companies carry one name, whatever the case of its letters.
SameNameTwice(comps) ==
    \E i, j \in 1..Len(comps) : i < j /\ Lower(comps[i].company_name) = Lower(comps[j].company_name)

\* C21: when the upserts of a name are taken one after the other, no two rows of
\* companies carry that name; two runs stepping side by side can both find no
\* match and both insert it (the state of C21_Witness).
C21_SerialUpsertsNoDuplicate == writers.serial => ~SameNameTwice(companies)

C21_Witness ==
    /\ ~writers.serial
    /\ Len(companies) = 2
    /\ companies[1].company_name = companies[2].company_name
    /\ companies[1].company_id # companies[2].company_id
    /\ \A r \in Runs : writers.run[r].queue = <<>>

\* The candidate the stated algorithm returns for an already normalized name:
\* the one of that very name if there is one, else the first, else none (0).
StatedMatch(cands, normalized) ==
    IF cands = <<>> THEN 0
    ELSE IF \E k \in 1..Len(cands) : Lower(cands[k].company_name) = normalized
    THEN cands[CHOOSE k \in 1..Len(cands) :
                   /\ Lower(cands[k].company_name) = normalized
                   /\ \A h \in 1..(k - 1) : Lower(cands[h].company_name) # normalized].company_id
    ELSE cands[1].company_id

StatedFind(comps, normalized) ==
    StatedMatch(SelectSeq(comps, LAMBDA c : Contains(Lower(c.company_name), normalized)), normalized)

\* C22: find_matching_company answers what the stated algorithm gives for the
\* name with its legal suffix stripped, its whitespace collapsed and its
\* letters lowered, and writes nothing to the store.
C22_FindByNormalizedName ==
    [][\A r \in Runs :
           (writers.run[r].pc = "ready" /\ writers'.run[r].pc = "matched") =>
               /\ writers'.run[r].existing_id =
                      StatedFind(companies, normalize_company_name(Head(writers.run[r].queue).company_name))
               /\ UNCHANGED tables]_vars

Larger(a, b) == IF a > b THEN a ELSE b

ConfidenceOf(comps, id) == CompanyById(comps, id).data_confidence

\* C23: an upsert_company call that matched a stored company leaves it with the
\* larger of its previous data_confidence and the confidence of the call, and
\* no step of the pipeline lowers the data_confidence of a stored company.
C23_ConfidenceNeverDecreases ==
    /\ [](\A k \in 1..Len(last.calls) :
              (/\ last.calls[k].op = "upsert_company"
               /\ last.calls[k].matched # 0
               /\ last.calls[k].ret # 0)
                => last.calls[k].after.data_confidence
                       = Larger(last.calls[k].before.data_confidence, last.calls[k].arg))
    /\ [][\A k \in 1..Len(companies) :
              ConfidenceOf(companies', companies[k].company_id) >= companies[k].data_confidence]_vars

\* A company stored with one confidence was matched by a call of a higher and
\* by a call of a lower confidence.
C23_Witness ==
    /\ last.op = "process_article"
    /\ \E k \in 1..Len(last.calls) :
          /\ last.calls[k].op = "upsert_company"
          /\ last.calls[k].matched # 0
          /\ last.calls[k].before.data_confidence > last.calls[k].arg
          /\ last.calls[k].after.data_confidence = last.calls[k].before.data_confidence
    /\ \E c \in 1..Len(companies) : companies[c].data_confidence = 920

\* The store errors that reject the write of an entity, event or relationship.
GraphWriteFaults(F) == \A f \in F : f.op \in {"companies", "events", "company_relationships"}

\* The call for a rejected write returned None.
RejectedReturnNone(F, calls) ==
    \A k \in 1..Len(calls) :
        /\ (calls[k].op = "upsert_company" /\ Faulted(F, "companies", calls[k].idx)) => calls[k].ret = 0
        /\ (calls[k].op = "insert_event" /\ Faulted(F, "events", calls[k].idx)) => calls[k].ret = 0

\* insert_relationships counted no relationship whose insert was rejected.
RejectedNotCounted(F, relationships, calls) ==
    \A k \in 1..Len(calls) :
        calls[k].op = "insert_relationships" =>
            calls[k].ret <= Cardinality({j \in 1..Len(relationships) :
                                            ~Faulted(F, "company_relationships", j)})

\* C24: when the store rejects the write of an entity, an event or a
\* relationship on the auto-accept route, the call returns None or does not
\* count the row, every other entity, event and relationship of the extraction
\* is still attempted, and the article ends with the status extracted.
C24_RejectedWriteDoesNotAbort ==
    (/\ last.op = "process_article"
     /\ last.route = "auto_approve"
     /\ last.faults # {}
     /\ GraphWriteFaults(last.faults))
        => /\ RejectedReturnNone(last.faults, last.calls)
           /\ RejectedNotCounted(last.faults, last.extraction.relationships, last.calls)
           /\ AutoAcceptSequence(last.extraction, last.calls)
           /\ articles[last.article_id].processing_status = "extracted"

\* The write of the first of three companies was rejected; the second and the
\* third were stored and the relationships attempted.
C24_Witness ==
    /\ last.op = "process_article"
    /\ last.extraction.entities = Contained
    /\ last.faults = {FaultPoint("companies", 1)}
    /\ Upserts(last.calls)[1].ret = 0
    /\ Upserts(last.calls)[2].ret # 0
    /\ Upserts(last.calls)[3].ret # 0
    /\ last.calls[Len(last.calls) - 1].op = "insert_relationships"
    /\ articles[last.article_id].processing_status = "extracted"

\* The step processed an article whose extraction names entities and whose
\* extraction_results insert the store rejected.
SaveFailed ==
    /\ Extracted
    /\ last'.extraction.entities # <<>>
    /\ Faulted(last'.faults, "extraction_results", 0)

\* C25: when save_extraction_result returns no id, the article is marked
\* failed (if the store takes that write), no route runs: no company, event,
\* relationship or review_queue row is written and the only call is the status
\* update; the run goes on with the rest of the batch.
C25_SaveFailureSkipsRoutes ==
    [][SaveFailed
         => /\ NoGraphWrite
            /\ review_queue' = review_queue
            /\ extraction_results' = extraction_results
            /\ last'.route = "none"
            /\ last'.calls = <<StatusCall("failed")>>
            /\ results'.failed = results.failed + 1
            /\ (~Faulted(last'.faults, "articles", 0)
                  => /\ StatusBecomes("failed")
                     /\ articles'[last'.article_id].error_message
                            = "Failed to save extraction result")
            /\ pc' = "running"
            /\ batch' = Tail(batch)]_vars

\* The save of article 1 failed on an extraction that would have been accepted
\* automatically, and article 2 was processed after it.
C25_Witness ==
    /\ last.op = "process_article"
    /\ last.article_id = 2
    /\ fetched = <<1, 2>>
    /\ articles[1].processing_status = "failed"
    /\ articles[1].error_message = "Failed to save extraction result"
    /\ articles[2].processing_status \in {"extracted", "skipped"}
    /\ companies = <<>>

\* The confidence_score of a validated entity lies in [0, 1].
InUnitInterval(x) == x.kind = "number" /\ x.num >= 0 /\ x.num <= 1000

\* C26 as stated: _validate_entity raises for no payload; an event_type outside
\* the allowed list becomes "other" and the confidence_score is then at most
\* 0.6, whatever the payload's confidence_score was; every validated
\* confidence_score lies in [0, 1].
C26_ValidationNeverRaises ==
    validation.pc \in {"validated", "raised"}
        => /\ validation.result.raised = "no"
           /\ InUnitInterval(validation.result.validated.confidence_score)
           /\ Defaults(validation.data).event_type \notin VALID_EVENT_TYPES
                  => /\ validation.result.validated.event_type = Str("other")
                     /\ validation.result.validated.confidence_score.num <= 600

\* The extraction is one _validate_extracted_data returns: every entity has a
\* confidence_score and overall_confidence is their rounded mean.
MeanOfEntities(extraction) ==
    /\ extraction.entities # <<>>
    /\ \A i \in 1..Len(extraction.entities) : extraction.entities[i].confidence_score # NoneInt
    /\ extraction.overall_confidence = MeanConfidence(extraction.entities)

\* Row k of companies was inserted by the step, or its data_confidence raised.
InsertedOrRaised(k) ==
    \/ k > Len(companies)
    \/ companies'[k].data_confidence > companies[k].data_confidence

\* C27 as stated: every company row the orchestrator inserts, or whose
\* data_confidence it raises, has a data_confidence of at least 0.85 afterwards.
C27_AcceptedAtThreshold ==
    [][(Extracted /\ MeanOfEntities(last'.extraction))
         => \A k \in 1..Len(companies') :
                InsertedOrRaised(k) => companies'[k].data_confidence >= 850]_vars

Decided(item) == item.status \in {"approved", "edited", "rejected"}

\* The step was approve_item or reject_item on the review item of row k.
DecidesAgain(k) ==
    /\ last'.op \in {"approve_item", "approve_item_edited", "reject_item"}
    /\ last'.review_id = review_queue[k].id
    /\ Decided(review_queue[k])

\* C28 as stated: approve_item or reject_item on a review item that is already
\* approved, edited or rejected leaves its status, the companies and events
\* tables and the status of its article as they are.
C28_DecidedOnce ==
    [][\A k \in 1..Len(review_queue) :
          DecidesAgain(k)
              => /\ review_queue'[k].status = review_queue[k].status
                 /\ companies' = companies
                 /\ events' = events
                 /\ articles' = articles]_vars

\* The updates of companies among the operations issued.
CompanyUpdates(ops) == SelectSeq(ops, LAMBDA o : o.op = "update" /\ o.table = "companies")

\* C29 as stated: in commit mode, the merge of a second search made right
\* after the first merge issues no company update (merges_applied is 0) and
\* leaves every company row as it is.
C29_SecondMergeAppliesNothing ==
    [][(qa.pc = "merge_duplicates again" /\ qa.commit)
         => /\ CompanyUpdates(qa'.ops) = CompanyUpdates(qa.ops)
            /\ qa'.companies = qa.companies]_vars

\* C30 as stated: every processed article adds one to exactly one of the
\* counters processed and failed, so that when the run returns they add up to
\* the number of articles it fetched.
C30_ProcessedPlusFailed ==
    /\ [](last.op = "end_run" => results.processed + results.failed = Len(fetched))
    /\ [][last'.op = "process_article"
            => results'.processed + results'.failed
                   = results.processed + results.failed + 1]_vars

====
